---- MODULE Spec2Model ----
(***************************************************************************)
(* Dataset generation of faker-mcp: the generate-dataset tool handler,     *)
(* schema validation with cycle detection, the ID pool with foreign-key    *)
(* selection, the topological sort and the per-entity generators.          *)
(*                                                                         *)
(* Representation notes                                                    *)
(*  - A schema is [keys, defs]: `keys` is Object.keys(schema.entities) in  *)
(*    insertion order, `defs` maps each key to its entity definition.      *)
(*  - `fields` and `relationships` that are omitted are the empty          *)
(*    sequence: every reader in the code (`!entity.fields ||               *)
(*    entity.fields.length === 0`, `fields || []`, `if                     *)
(*    (entity.relationships)`, `relationships?.[field]`) treats the two    *)
(*    alike.  A relationship map is the sequence of its entries in         *)
(*    insertion order.                                                     *)
(*  - A count is count + fraction/10, so that 1.5 is count 1, fraction 5.  *)
(*  - The string `${name}_${counter}` is the value                         *)
(*    [kind |-> "id", name, n |-> counter]; the counter has no underscore, *)
(*    so the string determines the pair and the pair the string.           *)
(*  - A value drawn from a Faker stream is identified by the seed of the   *)
(*    stream and the position of the draw in it.                           *)
(***************************************************************************)
EXTENDS Integers, Sequences, FiniteSets, TLC

\* -------------------------------------------------------------------- state
VARIABLES
  params,            \* the arguments of the tool calls: [schema, seed]
  clock,             \* Date.now()
  pc,                \* where the call in progress stands
  schemaValidation,  \* handleGenerateDataset: <<>> or <<schemaValidation>>
  generator,         \* handleGenerateDataset: <<>> or <<the DatasetGenerator>>
  sortedEntities,    \* generateDataset: sortedEntities
  entityIndex,       \* generateDataset: position of the for-of loop
  dataset,           \* generateDataset: dataset
  entityCounts,      \* generateDataset: entityCounts
  entities,          \* generateCustomEntities: entities
  i,                 \* generateCustomEntities: i
  results            \* what the calls made so far returned or threw

vars ==
  <<params, clock, pc, schemaValidation, generator, sortedEntities, entityIndex,
    dataset, entityCounts, entities, i, results>>

locals == <<sortedEntities, entityIndex, dataset, entityCounts, entities, i>>

\* ------------------------------------------------------------------ bounds
\* Largest valid record count of an entity that is explored.
MaxCount == 2
\* Number of tool calls in one behaviour.
MaxCalls == 3
\* Explicit seeds range over -1..MaxSeed (-1 is the invalid one).
MaxSeed == 1
\* Date.now() at the start, and how far the clock may advance.
ClockStart == 2
MaxTicks == 1
\* batchGenerate is explored for counts 0..MaxBatchCount and batch sizes
\* 1..MaxBatchSize.
MaxBatchCount == 8
MaxBatchSize == 4
\* A format template is made of at most MaxSegments segments.
MaxSegments == 2
\* A regular expression is made of at most MaxTokens tokens.
MaxTokens == 2
\* The bounds of a range pattern are integers of -MaxRange + 1 .. MaxRange.
MaxRange == 3

\* -------------------------------------------------------- program constants
\* validateEntityCount / EntityDefinitionSchema: count <= 10000
MaxEntityCount == 10000
\* selectForeignKeyValue: faker.datatype.boolean({ probability: 0.2 }),
\* as one chance in NullOneIn.
NullOneIn == 5
\* batchGenerate: batchSize = 1000
DefaultBatchSize == 1000
\* getOrGenerateSeed: seedString.length > 100
MaxSeedStringLength == 100
\* validateFormatPattern: a placeholder length is between 1 and this.
MaxPlaceholderLength == 100
\* GenerateCustomSchema: count is at most this.
MaxCustomCount == 10000
\* getFullYear of clock 0.
EpochYear == 1970

None == "undefined"

\* ------------------------------------------------------------------ helpers
Range(s) == {s[ix] : ix \in 1..Len(s)}

IndexOf(s, x) == CHOOSE ix \in 1..Len(s) : s[ix] = x

Min(a, b) == IF a < b THEN a ELSE b

RECURSIVE SumSeq(_)
SumSeq(s) == IF s = <<>> THEN 0 ELSE Head(s) + SumSeq(Tail(s))

\* ------------------------------------------------------------------- values
Null == [kind |-> "null", name |-> "", n |-> 0, m |-> 0]

\* String.prototype.toLowerCase on the entity names of the universe.
ToLowerCase(s) == IF s = "Orders" THEN "orders" ELSE s

\* The string `${prefix}_${counter}`.
IdString(prefix, counter) == [kind |-> "id", name |-> prefix, n |-> counter, m |-> 0]

\* A value produced by a Faker method called at position pos of the stream
\* seeded with seed.
Faked(kind, seed, pos) == [kind |-> kind, name |-> "", n |-> seed, m |-> pos]

\* The Faker stream: the number behind the draw at position pos of the
\* stream seeded with seed.
Rand(seed, pos) == (7 * seed + 3 * pos + seed * pos) % 10

\* obj[key] = value on a record under construction.
Put(rec, key, value) ==
  [k \in DOMAIN rec \cup {key} |-> IF k = key THEN value ELSE rec[k]]

\* ------------------------------------------------------------------ schemas
EntityTypes == {"person", "company", "custom"}

NullableOpts == {None, "false", "true"}

Rel(field, references, nullable) ==
  [field |-> field, references |-> references, nullable |-> nullable]

Ent(count, fraction, type, fields, relationships) ==
  [count |-> count, fraction |-> fraction, type |-> type,
   fields |-> fields, relationships |-> relationships]

MkSchema(keys, defSeq) ==
  [keys |-> keys, defs |-> [k \in Range(keys) |-> defSeq[IndexOf(keys, k)]]]

GraphKeys == <<"users", "Orders", "items">>

\* Relationship maps of the graph-shaped schemas: `parentId` to any entity,
\* nullable or not, and optionally `ownerId` to any entity.
ParentRels ==
  {<<>>} \cup {<<Rel("parentId", t, nl)>> : t \in Range(GraphKeys), nl \in {"false", "true"}}

OwnerRels == {<<>>} \cup {<<Rel("ownerId", t, None)>> : t \in Range(GraphKeys)}

GraphEnt(rels) == Ent(1, 0, "custom", <<"parentId", "ownerId">>, rels)

\* Every relationship graph over up to three custom entities of one record.
GraphSchemas ==
  {MkSchema(SubSeq(GraphKeys, 1, k),
            <<GraphEnt(p1 \o o1), GraphEnt(p2), GraphEnt(p3 \o o3)>>) :
     k \in 0..3, p1 \in ParentRels, o1 \in OwnerRels, p2 \in ParentRels,
     p3 \in ParentRels, o3 \in OwnerRels}

\* A referenced entity and a referencing one, of every archetype, with and
\* without `id` among the declared fields, in both key orders.
ReferencedEnts ==
  {Ent(c, 0, t, f, <<>>) : c \in 1..MaxCount, t \in {"person", "company"}, f \in {<<>>}}
  \cup {Ent(c, 0, "custom", f, <<>>) : c \in 1..MaxCount, f \in {<<"id">>, <<"name">>}}

ReferencingRels ==
  {<<>>, <<Rel("parentId", "Orders", "true")>>}
  \cup {<<Rel("parentId", "users", nl)>> : nl \in NullableOpts}

ReferencingEnts ==
  {Ent(MaxCount, 0, t, <<>>, r) : t \in {"person", "company"}, r \in ReferencingRels}
  \cup {Ent(MaxCount, 0, "custom", f, r) :
          f \in {<<"parentId">>, <<"id", "parentId">>, <<"name">>}, r \in ReferencingRels}

FieldSchemas ==
  {MkSchema(ks, IF ks[1] = "users" THEN <<p, q>> ELSE <<q, p>>) :
     ks \in {<<"users", "Orders">>, <<"Orders", "users">>},
     p \in ReferencedEnts, q \in ReferencingEnts}

\* Schemas that break several validation rules at once: counts 0, 0.5, 1.5,
\* 10001 and 10001.5, a custom entity without fields, a reference to the
\* missing entity `zz`, and the cycle users -> Orders -> users.
InvalidSchemas ==
  {MkSchema(<<"users", "Orders">>,
            <<Ent(c, fr, "custom", f, r1), Ent(1, 0, "custom", <<"parentId">>, r2)>>) :
     c \in {0, 1, MaxEntityCount + 1}, fr \in {0, 5},
     f \in {<<>>, <<"parentId">>},
     r1 \in {<<>>, <<Rel("parentId", "Orders", None)>>, <<Rel("parentId", "zz", None)>>},
     r2 \in {<<>>, <<Rel("parentId", "users", None)>>}}

\* The schemas of tool calls that follow one another with different
\* arguments: `users` alone, `users` after an entity `Orders` without
\* relationships, and `Orders` referencing `users`; a person entity comes
\* with and without `fields`.
RequestEnts ==
  {Ent(1, 0, "person", <<>>, <<>>), Ent(1, 0, "person", <<"email">>, <<>>),
   Ent(1, 0, "company", <<>>, <<>>), Ent(1, 0, "custom", <<"name">>, <<>>)}

RequestSchemas ==
  {MkSchema(<<"users">>, <<p>>) : p \in RequestEnts}
  \cup {MkSchema(<<"Orders", "users">>, <<q, p>>) :
          q \in RequestEnts \ {Ent(1, 0, "company", <<>>, <<>>)},
          p \in RequestEnts \ {Ent(1, 0, "company", <<>>, <<>>)}}
  \cup {MkSchema(<<"Orders", "users">>,
                 <<Ent(MaxCount, 0, "custom", <<"parentId">>,
                       <<Rel("parentId", "users", None)>>),
                   Ent(MaxCount, 0, "custom", <<"name">>, <<>>)>>)}

\* The schemas handed to the class directly: `Orders` references `users`
\* (of every archetype, with no record or with some, or referencing `Orders`
\* in turn), itself, or the missing entity `zz`.
LibraryReferenced ==
  {Ent(c, 0, t, <<>>, <<>>) : c \in {0, MaxCount}, t \in {"person", "company"}}
  \cup {Ent(c, 0, "custom", <<"name">>, <<>>) : c \in {0, MaxCount}}
  \cup {Ent(1, 0, "custom", <<"parentId">>, <<Rel("parentId", "Orders", None)>>)}

LibraryReferencing ==
  {Ent(MaxCount, 0, "custom", <<"parentId">>, <<Rel("parentId", t, nl)>>) :
     t \in {"users", "Orders", "zz"}, nl \in {None, "true"}}

LibrarySchemas ==
  {MkSchema(<<"Orders", "users">>, <<q, p>>) :
     q \in LibraryReferencing, p \in LibraryReferenced}

\* Schemas of many records: a person or company entity `users` with the
\* largest count an entity may have, or a little less, and a custom entity.
TotalSchemas ==
  {MkSchema(<<"users", "Orders">>,
            <<Ent(c, 0, t, <<>>, <<>>), Ent(d, 0, "custom", <<"name">>, <<>>)>>) :
     c \in {MaxEntityCount - MaxCount, MaxEntityCount}, t \in {"person", "company"},
     d \in 1..MaxCount}

\* Schemas whose entity names are integer indices, differ only in letter
\* case, or whose relationship names a property of Object.prototype. The key
\* lists are in the order Object.keys gives them.
NameKeys ==
  {<<"1", "2">>, <<"1", "users">>, <<"orders", "Orders">>, <<"Orders", "orders">>,
   <<"users", "Orders">>}

NameEnts(target) ==
  {Ent(c, 0, t, <<>>, <<>>) : c \in 1..MaxCount, t \in {"person", "company"}}
  \cup {Ent(c, 0, "custom", <<"name">>, <<>>) : c \in 1..MaxCount}
  \cup {Ent(c, 0, "custom", <<"parentId">>, <<Rel("parentId", r, nl)>>) :
          c \in 1..MaxCount, r \in {target, "constructor"}, nl \in {None, "true"}}

NameSchemas ==
  {MkSchema(ks, <<p, q>>) :
     ks \in NameKeys, p \in UNION {NameEnts(t) : t \in {"1", "2", "users", "orders", "Orders"}},
     q \in UNION {NameEnts(t) : t \in {"1", "2", "users", "orders", "Orders"}}}

\* --------------------------------------------------------------- validation
Truthy(nullable) == nullable = "true"

RECURSIVE Flatten(_)
\* The concatenation of ss[1], ss[2], ... (what a loop pushes, pass by pass).
Flatten(ss) ==
  IF ss = <<>> THEN <<>> ELSE Head(ss) \o Flatten(Tail(ss))

\* relationships?.[field] is an object / that object.
HasRelationship(rels, field) == \E ix \in 1..Len(rels) : rels[ix].field = field

RelationshipOf(rels, field) == rels[CHOOSE ix \in 1..Len(rels) : rels[ix].field = field]

\* The names every plain object answers to without owning them (two of them).
ObjectPrototypeKeys == {"constructor", "toString"}

\* schema.entities[name] is truthy: an entity of the schema, or a property
\* inherited from Object.prototype.
HasEntity(schema, name) == name \in Range(schema.keys) \/ name \in ObjectPrototypeKeys

\* One violation; detail is a list of lists of strings (for a cycle, the
\* reported paths).
Err(rule, entity, detail) == [rule |-> rule, entity |-> entity, detail |-> detail]

\* validateEntityCount: the first failing check decides the message.
ValidateEntityCount(e) ==
  IF e.fraction # 0 THEN "Count must be an integer"
  ELSE IF e.count < 1 THEN "Count must be at least 1"
  ELSE IF e.count > MaxEntityCount THEN "Count must not exceed 10000"
  ELSE None

\* DependencyGraph with every self-reference skipped, nullable or not.
DependencyGraphSkipSelf(schema) ==
  [name \in Range(schema.keys) |->
     LET rels == schema.defs[name].relationships IN
       Flatten([k \in 1..Len(rels) |->
                  IF rels[k].references = name THEN <<>> ELSE <<rels[k].references>>])]

\* The dependency graph of detectCircularDependencies: entity -> the
\* entities it references, nullable self-references skipped.
DependencyGraph(schema) ==
  [name \in Range(schema.keys) |->
     LET rels == schema.defs[name].relationships IN
       Flatten([k \in 1..Len(rels) |->
                  IF rels[k].references = name /\ Truthy(rels[k].nullable)
                  THEN <<>> ELSE <<rels[k].references>>])]

\* graph.get(node) || []
Neighbors(graph, node) == IF node \in DOMAIN graph THEN graph[node] ELSE <<>>

RECURSIVE dfs(_, _, _, _)
RECURSIVE dfsNeighbors(_, _, _, _, _)
\* dfs(node, path): st carries visited, recursionStack and circularPaths,
\* st.found is the return value.
dfs(graph, node, pathIn, st) ==
  dfsNeighbors(graph, node, Append(pathIn, node), 1,
               [st EXCEPT !.visited = @ \cup {node}, !.stack = @ \cup {node}])

\* The loop over the neighbours of node, from index ix on.
dfsNeighbors(graph, node, path, ix, st) ==
  LET nbs == Neighbors(graph, node) IN
  IF ix > Len(nbs)
  THEN [st EXCEPT !.stack = @ \ {node}, !.found = FALSE]
  ELSE LET nb == nbs[ix] IN
       IF nb \notin st.visited
       THEN LET r == dfs(graph, nb, path, st) IN
            IF r.found THEN r ELSE dfsNeighbors(graph, node, path, ix + 1, r)
       ELSE IF nb \in st.stack
       THEN [st EXCEPT !.paths = Append(@, Append(path, nb)), !.found = TRUE]
       ELSE dfsNeighbors(graph, node, path, ix + 1, st)

RECURSIVE dfsRoots(_, _, _, _)
\* for (const entityName of Object.keys(schema.entities)) if unvisited dfs
dfsRoots(graph, keys, ix, st) ==
  IF ix > Len(keys) THEN st
  ELSE IF keys[ix] \in st.visited THEN dfsRoots(graph, keys, ix + 1, st)
  ELSE dfsRoots(graph, keys, ix + 1, dfs(graph, keys[ix], <<>>, st))

\* detectCircularDependencies: the list of reported paths.
detectCircularDependencies(schema) ==
  dfsRoots(DependencyGraph(schema), schema.keys, 1,
           [visited |-> {}, stack |-> {}, paths |-> <<>>, found |-> FALSE]).paths

\* The checks of validateDatasetSchema on one entity, in order.
EntityErrors(schema, name) ==
  LET e == schema.defs[name] IN
    (IF ValidateEntityCount(e) # None
     THEN <<Err("count", name, <<<<ValidateEntityCount(e)>>>>)>> ELSE <<>>)
    \o (IF e.type = "custom" /\ e.fields = <<>>
        THEN <<Err("fields", name, <<>>)>> ELSE <<>>)
    \o Flatten([k \in 1..Len(e.relationships) |->
                   LET r == e.relationships[k] IN
                     IF ~HasEntity(schema, r.references)
                     THEN <<Err("reference", name, <<<<r.field, r.references>>>>)>>
                     ELSE <<>>])

\* validateDatasetSchema without the check for circular dependencies.
validateDatasetSchemaNoCycleCheck(schema) ==
  IF Len(schema.keys) = 0
  THEN [valid |-> FALSE, errors |-> <<Err("empty", "", <<>>)>>]
  ELSE LET errors == Flatten([k \in 1..Len(schema.keys) |-> EntityErrors(schema, schema.keys[k])])
       IN [valid |-> Len(errors) = 0, errors |-> errors]

\* validateDatasetSchema
validateDatasetSchema(schema) ==
  IF Len(schema.keys) = 0
  THEN [valid |-> FALSE, errors |-> <<Err("empty", "", <<>>)>>]
  ELSE LET circularDeps == detectCircularDependencies(schema)
           errors == Flatten([k \in 1..Len(schema.keys) |-> EntityErrors(schema, schema.keys[k])])
                     \o (IF Len(circularDeps) > 0
                         THEN <<Err("cycle", "", circularDeps)>> ELSE <<>>)
       IN [valid |-> Len(errors) = 0, errors |-> errors]

\* GenerateDatasetParamsSchema.parse on the schema: the issues zod collects.
\* Entity types and relationship types of the universe are members of their
\* enums and `references` is never empty, so only the count checks and the
\* refinement on the number of entities can raise an issue.
ZodIssues(schema) ==
  Flatten([k \in 1..Len(schema.keys) |->
              LET name == schema.keys[k]
                  e == schema.defs[name] IN
                (IF e.fraction # 0 THEN <<Err("count", name, <<<<"Count must be an integer">>>>)>> ELSE <<>>)
                \o (IF e.count < 1 THEN <<Err("count", name, <<<<"Count must be at least 1">>>>)>> ELSE <<>>)
                \o (IF e.count > MaxEntityCount \/ (e.count = MaxEntityCount /\ e.fraction > 0)
                    THEN <<Err("count", name, <<<<"Count must not exceed 10000">>>>)>> ELSE <<>>)])
  \o (IF Len(schema.keys) > 0 THEN <<>> ELSE <<Err("empty", "", <<>>)>>)

\* ------------------------------------------------------------ plain objects
\* A JavaScript object used as an ordered map: the sequence of its
\* [key, value] entries in insertion order.
ObjHas(obj, key) == \E ix \in 1..Len(obj) : obj[ix].key = key

ObjGet(obj, key) == obj[CHOOSE ix \in 1..Len(obj) : obj[ix].key = key].value

ObjSet(obj, key, value) ==
  IF ObjHas(obj, key)
  THEN [ix \in 1..Len(obj) |-> IF obj[ix].key = key THEN [key |-> key, value |-> value] ELSE obj[ix]]
  ELSE Append(obj, [key |-> key, value |-> value])

\* The number a key stands for when it is an integer index (`1`, `2`), -1
\* for any other name of the universe.
ArrayIndex(key) == CASE key = "1" -> 1 [] key = "2" -> 2 [] OTHER -> -1

\* obj[key] = value on a plain object, whose keys enumerate with the integer
\* indices first, in ascending order, then the other names in insertion
\* order.
PropSet(obj, key, value) ==
  IF ObjHas(obj, key) \/ ArrayIndex(key) < 0
  THEN ObjSet(obj, key, value)
  ELSE LET Smaller(e) == ArrayIndex(e.key) >= 0 /\ ArrayIndex(e.key) < ArrayIndex(key)
           NotSmaller(e) == ~Smaller(e)
       IN SelectSeq(obj, Smaller) \o <<[key |-> key, value |-> value]>>
            \o SelectSeq(obj, NotSmaller)

ObjKeys(obj) == [ix \in 1..Len(obj) |-> obj[ix].key]

ObjValues(obj) == [ix \in 1..Len(obj) |-> obj[ix].value]

\* ------------------------------------------------------------------ ID pool
\* One ID pool kept across generators instead of one per generator.
SharedIDPool ==
  IF generator = <<>> THEN [pools |-> <<>>, counters |-> <<>>] ELSE generator[1].idPool

\* new IDPool()
NewIDPool == [pools |-> <<>>, counters |-> <<>>]

\* IDPool.getEntityIds
getEntityIds(idPool, entityName) ==
  IF ObjHas(idPool.pools, entityName) THEN ObjGet(idPool.pools, entityName) ELSE <<>>

\* IDPool.generateEntityId: the id and the pool after the call.
generateEntityId(idPool, entityName) ==
  LET counter == (IF ObjHas(idPool.counters, entityName)
                  THEN ObjGet(idPool.counters, entityName) ELSE 0) + 1
      id == IdString(ToLowerCase(entityName), counter)
  IN [id |-> id,
      idPool |-> [pools |-> ObjSet(idPool.pools, entityName,
                                   Append(getEntityIds(idPool, entityName), id)),
                  counters |-> ObjSet(idPool.counters, entityName, counter)]]

\* selectForeignKeyValue drawing the coin whatever the nullable flag.
selectForeignKeyValueAlwaysCoin(idPool, entityName, faker, nullable) ==
  LET ids == getEntityIds(idPool, entityName) IN
  IF Len(ids) = 0
  THEN [threw |-> TRUE, value |-> Null, faker |-> faker]
  ELSE IF Rand(faker.seed, faker.pos) % NullOneIn = 0
  THEN [threw |-> FALSE, value |-> Null, faker |-> [faker EXCEPT !.pos = @ + 1]]
  ELSE [threw |-> FALSE,
        value |-> ids[(Rand(faker.seed, faker.pos + 1) % Len(ids)) + 1],
        faker |-> [faker EXCEPT !.pos = @ + 2]]

\* selectForeignKeyValue drawing the nullable coin before it looks at the
\* pool.
selectForeignKeyValueCoinFirst(idPool, entityName, faker, nullable) ==
  LET ids == getEntityIds(idPool, entityName)
      f == IF nullable THEN [faker EXCEPT !.pos = @ + 1] ELSE faker
  IN IF nullable /\ Rand(faker.seed, faker.pos) % NullOneIn = 0
     THEN [threw |-> FALSE, value |-> Null, faker |-> f]
     ELSE IF Len(ids) = 0
     THEN [threw |-> TRUE, value |-> Null, faker |-> f]
     ELSE [threw |-> FALSE,
           value |-> ids[(Rand(f.seed, f.pos) % Len(ids)) + 1],
           faker |-> [f EXCEPT !.pos = @ + 1]]

\* IDPool.selectForeignKeyValue: threw, or the value and the stream after
\* the draws.  The coin is drawn only for a nullable relationship.
selectForeignKeyValue(idPool, entityName, faker, nullable) ==
  LET ids == getEntityIds(idPool, entityName) IN
  IF Len(ids) = 0
  THEN [threw |-> TRUE, value |-> Null, faker |-> faker]
  ELSE IF nullable /\ Rand(faker.seed, faker.pos) % NullOneIn = 0
  THEN [threw |-> FALSE, value |-> Null, faker |-> [faker EXCEPT !.pos = @ + 1]]
  ELSE LET f == IF nullable THEN [faker EXCEPT !.pos = @ + 1] ELSE faker IN
       [threw |-> FALSE,
        value |-> ids[(Rand(f.seed, f.pos) % Len(ids)) + 1],
        faker |-> [f EXCEPT !.pos = @ + 1]]

\* --------------------------------------------------------------- generators
\* A seed argument is <<>> (undefined) or <<seed>>.
SeedArgs == {<<>>} \cup {<<sd>> : sd \in -1..MaxSeed}

\* validateSeed: Number.isSafeInteger(seed) && seed >= 0, on the integers of
\* the universe, all of them safe.
validateSeed(sd) == sd >= 0

\* A seed string is <<>> (undefined) or <<str>>, str being the text number
\* str.text among the texts of str.length characters.
SeedStrings ==
  {<<>>} \cup {<<[length |-> n, text |-> t]>> :
                 n \in {1, MaxSeedStringLength, MaxSeedStringLength + 1}, t \in 0..MaxSeed}
         \cup {<<[length |-> 0, text |-> 0]>>}

\* hashStringToSeed: the first 8 hex digits of the SHA-256 of the string as
\* a number, here a number computed from the string alone.
hashStringToSeed(str) == (str.text * 40503 + str.length * 31 + 17) % 65536

\* getOrGenerateSeed looking at the seed string before the seed.
getOrGenerateSeedTextFirst(seedArg, seedString, now) ==
  IF seedString # <<>>
  THEN IF seedString[1].length = 0
       THEN [threw |-> TRUE, error |-> "Seed string must be a non-empty string", seed |-> 0]
       ELSE IF seedString[1].length > MaxSeedStringLength
       THEN [threw |-> TRUE, error |-> "Seed string must be 100 characters or less", seed |-> 0]
       ELSE [threw |-> FALSE, error |-> "", seed |-> hashStringToSeed(seedString[1])]
  ELSE IF seedArg # <<>>
  THEN IF ~validateSeed(seedArg[1])
       THEN [threw |-> TRUE, error |-> "Invalid seed", seed |-> 0]
       ELSE [threw |-> FALSE, error |-> "", seed |-> seedArg[1]]
  ELSE [threw |-> FALSE, error |-> "", seed |-> now]

\* getOrGenerateSeed(seed, seedString) with Date.now() = now: threw with an
\* error, or the seed.
getOrGenerateSeed(seedArg, seedString, now) ==
  IF seedArg # <<>>
  THEN IF ~validateSeed(seedArg[1])
       THEN [threw |-> TRUE, error |-> "Invalid seed", seed |-> 0]
       ELSE [threw |-> FALSE, error |-> "", seed |-> seedArg[1]]
  ELSE IF seedString # <<>>
  THEN IF seedString[1].length = 0
       THEN [threw |-> TRUE, error |-> "Seed string must be a non-empty string", seed |-> 0]
       ELSE IF seedString[1].length > MaxSeedStringLength
       THEN [threw |-> TRUE, error |-> "Seed string must be 100 characters or less", seed |-> 0]
       ELSE [threw |-> FALSE, error |-> "", seed |-> hashStringToSeed(seedString[1])]
  ELSE [threw |-> FALSE, error |-> "", seed |-> now]

\* BaseGenerator constructor: the seed and a Faker stream seeded with it.
BaseGenerator(sd) == [seed |-> sd, pos |-> 0]

\* One DatasetGenerator kept by the module and used by every call.
SharedDatasetGenerator(seedArg, t1, t2, t3) ==
  IF generator # <<>> THEN generator[1]
  ELSE [seed |-> getOrGenerateSeed(seedArg, <<>>, t1).seed,
        faker |-> BaseGenerator(getOrGenerateSeed(seedArg, <<>>, t1).seed),
        personGenerator |-> BaseGenerator(getOrGenerateSeed(seedArg, <<>>, t2).seed),
        companyGenerator |-> BaseGenerator(getOrGenerateSeed(seedArg, <<>>, t3).seed),
        idPool |-> NewIDPool]

\* new DatasetGenerator(options): super(), then the person and the company
\* generator, each resolving its seed by its own call of getOrGenerateSeed
\* (at times t1 <= t2 <= t3), then an empty ID pool.  The options of the
\* callers hold a seed and a locale, no seedString.
DatasetGenerator(seedArg, t1, t2, t3) ==
  [seed |-> getOrGenerateSeed(seedArg, <<>>, t1).seed,
   faker |-> BaseGenerator(getOrGenerateSeed(seedArg, <<>>, t1).seed),
   personGenerator |-> BaseGenerator(getOrGenerateSeed(seedArg, <<>>, t2).seed),
   companyGenerator |-> BaseGenerator(getOrGenerateSeed(seedArg, <<>>, t3).seed),
   idPool |-> NewIDPool]

PersonFields == {"firstName", "lastName", "fullName", "email", "phone", "address"}

CompanyFields == {"name", "industry", "email", "phone", "website", "address"}

\* One record of PersonGenerator.generateMany / CompanyGenerator.generateMany,
\* the generateFn of batchGenerate called with index: the id is
\* generateId(prefix, index) = `${prefix}_${seed}_${index}`, every other field
\* a value of the generator's stream where the call finds it.
LeafRecord(prefix, leafFields, gen, index) ==
  [f \in leafFields \cup {"id"} |->
     IF f = "id" THEN [kind |-> "id", name |-> prefix, n |-> gen.seed, m |-> index]
     ELSE Faked(f, gen.seed, gen.pos)]

\* Math.ceil(count / batchSize) on integers.
CeilDiv(a, b) == (a + b - 1) \div b

\* The batch of iteration ib with every batch numbered from index 0.
BatchWithoutOffset(prefix, leafFields, gen, count, batchSize, ib) ==
  LET currentBatchSize == Min(batchSize, count - ib * batchSize) IN
    [records |-> [idx \in 1..currentBatchSize |->
                    LeafRecord(prefix, leafFields, [gen EXCEPT !.pos = @ + idx - 1],
                               idx - 1)],
     gen |-> [gen EXCEPT !.pos = @ + currentBatchSize]]

\* The body of the loop of batchGenerate for iteration ib: Array.from calls
\* generateFn(ib * batchSize + idx) for idx = 0, 1, ... in order; the batch
\* and the stream after it.
Batch(prefix, leafFields, gen, count, batchSize, ib) ==
  LET currentBatchSize == Min(batchSize, count - ib * batchSize) IN
    [records |-> [idx \in 1..currentBatchSize |->
                    LeafRecord(prefix, leafFields, [gen EXCEPT !.pos = @ + idx - 1],
                               ib * batchSize + idx - 1)],
     gen |-> [gen EXCEPT !.pos = @ + currentBatchSize]]

RECURSIVE BatchLoop(_, _, _, _, _, _, _)
\* for (let i = ib; i < batches; i++) results.push(...batch)
BatchLoop(prefix, leafFields, gen, count, batchSize, ib, acc) ==
  IF ib >= CeilDiv(count, batchSize) THEN [records |-> acc, gen |-> gen]
  ELSE LET b == Batch(prefix, leafFields, gen, count, batchSize, ib) IN
         BatchLoop(prefix, leafFields, b.gen, count, batchSize, ib + 1, acc \o b.records)

\* batchGenerate(count, generateFn) with the default batch size: the records
\* and the stream after them.
batchGenerate(prefix, leafFields, gen, count) ==
  BatchLoop(prefix, leafFields, gen, count, DefaultBatchSize, 0, <<>>)

\* generateEntityId called n times in a row for one entity: the ids, and
\* the pool after the calls (the counter and the list grow by one per call).
generateEntityIds(idPool, entityName, n) ==
  LET counter == IF ObjHas(idPool.counters, entityName)
                 THEN ObjGet(idPool.counters, entityName) ELSE 0
      ids == [k \in 1..n |-> IdString(ToLowerCase(entityName), counter + k)]
  IN [ids |-> ids,
      idPool |-> IF n = 0 THEN idPool
                 ELSE [pools |-> ObjSet(idPool.pools, entityName,
                                        getEntityIds(idPool, entityName) \o ids),
                       counters |-> ObjSet(idPool.counters, entityName, counter + n)]]

\* entities.map(entity => ({...entity, id: idPool.generateEntityId(name)}))
UpdateIds(records, entityName, idPool) ==
  LET g == generateEntityIds(idPool, entityName, Len(records)) IN
    [records |-> [k \in 1..Len(records) |-> Put(records[k], "id", g.ids[k])],
     idPool |-> g.idPool]

\* The heuristics of generateFieldValue on the field names of the universe.
FieldKind(fieldName) ==
  IF fieldName \in {"id", "parentId", "ownerId"} THEN "uuid"
  ELSE IF fieldName = "name" THEN "productName"
  ELSE "word"

\* generateFieldValue: the value and the stream after the draw.
generateFieldValue(fieldName, faker) ==
  [value |-> Faked(FieldKind(fieldName), faker.seed, faker.pos),
   faker |-> [faker EXCEPT !.pos = @ + 1]]

RECURSIVE GenerateFields(_, _, _, _)
\* The loop over `fields` of generateCustomEntities for one record; st is
\* [entity, faker, threw].
GenerateFields(fields, relationships, idPool, st) ==
  IF fields = <<>> \/ st.threw THEN st
  ELSE LET field == Head(fields) IN
       IF HasRelationship(relationships, field)
       THEN LET relationship == RelationshipOf(relationships, field)
                fk == selectForeignKeyValue(idPool, relationship.references, st.faker,
                                            Truthy(relationship.nullable))
            IN GenerateFields(Tail(fields), relationships, idPool,
                 [entity |-> IF fk.threw THEN st.entity ELSE Put(st.entity, field, fk.value),
                  faker |-> fk.faker, threw |-> fk.threw])
       ELSE LET v == generateFieldValue(field, st.faker)
            IN GenerateFields(Tail(fields), relationships, idPool,
                 [entity |-> Put(st.entity, field, v.value), faker |-> v.faker,
                  threw |-> FALSE])

\* --------------------------------------------------------- custom generator
\* A number is [num, scale], the value num / 10^scale with the fewest
\* decimals; an integer has scale 0.
RECURSIVE Pow10(_)
Pow10(p) == IF p = 0 THEN 1 ELSE 10 * Pow10(p - 1)

\* Number.prototype.toFixed(precision) on a number of at most `precision`
\* decimals: its digits, padded to exactly `precision` decimals.
ToFixed(v, precision) == [num |-> v.num * Pow10(precision - v.scale), scale |-> precision]

RECURSIVE ParseFloat(_)
\* parseFloat of such digits: the number, trailing zeros of the decimals
\* dropped.
ParseFloat(digits) ==
  IF digits.scale > 0 /\ digits.num % 10 = 0
  THEN ParseFloat([num |-> digits.num \div 10, scale |-> digits.scale - 1])
  ELSE digits

\* faker.number.int({ min, max }) on integer bounds min <= max:
\* Math.floor(real * (max + 1 - min) + min) with the next real of the
\* stream, or min without a draw when min = max.
fakerNumberInt(min, max, faker) ==
  IF min = max THEN [value |-> min, faker |-> faker]
  ELSE [value |-> min + (Rand(faker.seed, faker.pos) * (max + 1 - min)) \div 10,
        faker |-> [faker EXCEPT !.pos = @ + 1]]

\* The range patterns: precision is <<>> (undefined) or <<precision>>.
RangePatterns ==
  [min : (1 - MaxRange)..MaxRange, max : (1 - MaxRange)..MaxRange,
   precision : {<<>>, <<0>>, <<1>>}]

\* generateRangePattern taking the float branch whatever the precision.
generateRangePatternFloat(rangeValue, faker) ==
  LET precision == IF rangeValue.precision = <<>> THEN 1 ELSE rangeValue.precision[1] + 1
      factor == Pow10(precision)
      r == fakerNumberInt(rangeValue.min * factor, rangeValue.max * factor, faker)
  IN [threw |-> rangeValue.min > rangeValue.max,
      value |-> ParseFloat(ToFixed([num |-> r.value, scale |-> precision], precision)),
      faker |-> r.faker]

\* generateRangePattern: threw, or the number and the stream after the draw.
\* faker.number.float with multipleOf = 10^-precision draws an integer
\* between min / multipleOf and max / multipleOf and multiplies it back.
generateRangePattern(rangeValue, faker) ==
  IF rangeValue.min > rangeValue.max
  THEN [threw |-> TRUE, value |-> [num |-> 0, scale |-> 0], faker |-> faker]
  ELSE IF rangeValue.precision = <<>> \/ rangeValue.precision = <<0>>
  THEN LET r == fakerNumberInt(rangeValue.min, rangeValue.max, faker) IN
         [threw |-> FALSE, value |-> [num |-> r.value, scale |-> 0], faker |-> r.faker]
  ELSE LET precision == rangeValue.precision[1]
           factor == Pow10(precision)
           r == fakerNumberInt(rangeValue.min * factor, rangeValue.max * factor, faker)
       IN [threw |-> FALSE,
           value |-> ParseFloat(ToFixed([num |-> r.value, scale |-> precision], precision)),
           faker |-> r.faker]

\* A string is a sequence of characters; the words year, random: and number:
\* and the word name are kept as one element each, every other element is
\* one character.
DigitChars == <<"0", "1", "2", "3", "4", "5", "6", "7", "8", "9">>

\* The characters faker.string.alphanumeric produces, ten of them here.
AlnumChars == <<"a", "0", "B", "1", "c", "2", "D", "5", "e", "9">>

IsDigit(c) == c \in Range(DigitChars)

DigitValue(c) == CHOOSE d \in 0..9 : DigitChars[d + 1] = c

RECURSIVE parseInt(_)
\* parseInt(digits, 10) of a run of digits.
parseInt(digits) ==
  IF digits = <<>> THEN 0
  ELSE parseInt(SubSeq(digits, 1, Len(digits) - 1)) * 10 + DigitValue(digits[Len(digits)])

RECURSIVE toString(_)
\* Number.prototype.toString of a natural number.
toString(n) ==
  IF n < 10 THEN <<DigitChars[n + 1]>> ELSE toString(n \div 10) \o <<DigitChars[(n % 10) + 1]>>

\* new Date().getFullYear(), the clock counting years.
getFullYear(now) == EpochYear + now

First(S) == CHOOSE x \in S : \A y \in S : x <= y

\* The end (exclusive) of the longest run of digits of s that starts at p.
DigitRunEnd(s, p) ==
  LET stops == {q \in p..Len(s) : ~IsDigit(s[q])} IN
    IF stops = {} THEN Len(s) + 1 ELSE First(stops)

\* The length of the match at p of /\{\{year\}\}/ (word = "year") or of
\* /\{\{random:(\d+)\}\}/, /\{\{number:(\d+)\}\}/; 0 when p starts no match.
MatchLen(s, p, word) ==
  IF ~(p + 4 <= Len(s) /\ s[p] = "{" /\ s[p + 1] = "{" /\ s[p + 2] = word) THEN 0
  ELSE IF word = "year" THEN (IF s[p + 3] = "}" /\ s[p + 4] = "}" THEN 5 ELSE 0)
  ELSE LET e == DigitRunEnd(s, p + 3) IN
         IF e > p + 3 /\ e + 1 <= Len(s) /\ s[e] = "}" /\ s[e + 1] = "}"
         THEN e + 2 - p ELSE 0

\* The capture group (\d+) of the match of length m at p.
MatchDigits(s, p, m) == SubSeq(s, p + 3, p + m - 3)

\* faker.string.alphanumeric(length) and faker.string.numeric(length): one
\* draw per character.
fakerStringAlphanumeric(length, faker) ==
  [text |-> [k \in 1..length |-> AlnumChars[Rand(faker.seed, faker.pos + k - 1) + 1]],
   faker |-> [faker EXCEPT !.pos = @ + length]]

fakerStringNumeric(length, faker) ==
  [text |-> [k \in 1..length |-> DigitChars[Rand(faker.seed, faker.pos + k - 1) + 1]],
   faker |-> [faker EXCEPT !.pos = @ + length]]

\* What the replace call of the word puts in place of one match.
Replacement(word, digits, year, faker) ==
  IF word = "year" THEN [text |-> year, faker |-> faker]
  ELSE IF word = "random:" THEN fakerStringAlphanumeric(parseInt(digits), faker)
  ELSE fakerStringNumeric(parseInt(digits), faker)

RECURSIVE replace(_, _, _, _)
\* String.prototype.replace with the global pattern of the word: the matches
\* from left to right, none overlapping another, the text between them kept.
replace(s, word, year, faker) ==
  LET ms == {p \in 1..Len(s) : MatchLen(s, p, word) > 0} IN
    IF ms = {} THEN [text |-> s, faker |-> faker]
    ELSE LET p == First(ms)
             m == MatchLen(s, p, word)
             r == Replacement(word, MatchDigits(s, p, m), year, faker)
             rest == replace(SubSeq(s, p + m, Len(s)), word, year, r.faker)
         IN [text |-> SubSeq(s, 1, p - 1) \o r.text \o rest.text, faker |-> rest.faker]

\* generateFormatPattern: the three replace calls, each on the result of
\* the one before.
generateFormatPattern(formatValue, now, faker) ==
  LET year == toString(getFullYear(now))
      a == replace(formatValue, "year", year, faker)
      b == replace(a.text, "random:", year, a.faker)
  IN replace(b.text, "number:", year, b.faker)

PlaceholderWords == {"year", "random:", "number:"}

\* The length of the match at p of
\* /\{\{(year|random:\d+|number:\d+)\}\}/ and its word; 0 when none.
PlaceholderAt(s, p) ==
  IF \E word \in PlaceholderWords : MatchLen(s, p, word) > 0
  THEN LET word == CHOOSE w \in PlaceholderWords : MatchLen(s, p, w) > 0 IN
         [len |-> MatchLen(s, p, word), word |-> word]
  ELSE [len |-> 0, word |-> "none"]

RECURSIVE match(_, _)
\* formatValue.match(placeholderRegex): the positions of the matches from p
\* on, from left to right, none overlapping another.
match(s, p) ==
  LET ms == {q \in p..Len(s) : PlaceholderAt(s, q).len > 0} IN
    IF ms = {} THEN <<>>
    ELSE <<First(ms)>> \o match(s, First(ms) + PlaceholderAt(s, First(ms)).len)

\* validateFormatPattern throws.
validateFormatPattern(formatValue) ==
  \/ Len(formatValue) = 0
  \/ \E k \in 1..Len(match(formatValue, 1)) :
       LET p == match(formatValue, 1)[k]
           ph == PlaceholderAt(formatValue, p)
           length == parseInt(MatchDigits(formatValue, p, ph.len))
       IN ph.word # "year" /\ (length <= 0 \/ length > MaxPlaceholderLength)

\* The pieces templates are made of: plain text, the three placeholders,
\* lengths validation refuses, unrecognized placeholders, and placeholders
\* written around another placeholder.
FormatSegments ==
  { <<"-">>, <<"{">>, <<"}">>,
    <<"{", "{", "year", "}", "}">>,
    <<"{", "{", "random:", "2", "}", "}">>,
    <<"{", "{", "number:", "1", "}", "}">>,
    <<"{", "{", "number:", "0", "}", "}">>,
    <<"{", "{", "random:", "1", "0", "1", "}", "}">>,
    <<"{", "{", "name", "}", "}">>,
    <<"{", "{", "random:", "}", "}">>,
    <<"{", "{", "random:", "{", "{", "year", "}", "}", "}", "}">>,
    <<"{", "{", "random:", "{", "{", "number:", "1", "}", "}", "}", "}">>,
    <<"{", "{", "number:", "{", "{", "random:", "1", "}", "}", "}", "}">> }

FormatValues ==
  {Flatten(ss) : ss \in UNION {[1..n -> FormatSegments] : n \in 0..MaxSegments}}

\* A regular expression is [compiles, tokens]: whether new RegExp accepts
\* its text, and its parse, a sequence of tokens
\*   [type |-> "set", chars, min, max]   one of chars, min to max times
\*                                       ([AB]{2}, [ab]{1,2}, - as a set of one),
\*   [type |-> "followedBy", chars]      the lookahead (?=[chars]),
\*   [type |-> "position", value]        ^ or $.
CharSet(chars, min, max) == [type |-> "set", chars |-> chars, min |-> min, max |-> max]

FollowedBy(chars) == [type |-> "followedBy", chars |-> chars, min |-> 0, max |-> 0]

Position(value) == [type |-> "position", chars |-> <<value>>, min |-> 0, max |-> 0]

\* [AB]{2}   -   [01]   [ab]{1,2}   (?=[0])   $
RegexTokens ==
  { CharSet(<<"A", "B">>, 2, 2), CharSet(<<"-">>, 1, 1), CharSet(<<"0", "1">>, 1, 1),
    CharSet(<<"a", "b">>, 1, 2), FollowedBy(<<"0">>), Position("$") }

\* The expressions of at most MaxTokens of these tokens, such as
\* [AB]{2}-[01], (?=[0])[01] and [01]$, and text that is no regular
\* expression, such as [invalid( .
RegexValues ==
  {[compiles |-> TRUE, tokens |-> ts] :
     ts \in UNION {[1..n -> RegexTokens] : n \in 1..MaxTokens}}
  \cup {[compiles |-> FALSE, tokens |-> <<>>]}

RECURSIVE randSelect(_, _, _)
\* n characters of the set, each chars[randInt(0, length - 1)], randInt
\* being faker.number.int.
randSelect(chars, n, faker) ==
  IF n = 0 THEN [text |-> <<>>, faker |-> faker]
  ELSE LET r == fakerNumberInt(0, Len(chars) - 1, faker)
           rest == randSelect(chars, n - 1, r.faker)
       IN [text |-> <<chars[r.value + 1]>> \o rest.text, faker |-> rest.faker]

RECURSIVE randexpGen(_, _)
\* RandExp.gen over the tokens: a set repeated randInt(min, max) times;
\* lookaheads and positions produce nothing.
randexpGen(tokens, faker) ==
  IF tokens = <<>> THEN [text |-> <<>>, faker |-> faker]
  ELSE LET token == Head(tokens) IN
    IF token.type = "set"
    THEN LET n == fakerNumberInt(token.min, token.max, faker)
             r == randSelect(token.chars, n.value, n.faker)
             rest == randexpGen(Tail(tokens), r.faker)
         IN [text |-> r.text \o rest.text, faker |-> rest.faker]
    ELSE randexpGen(Tail(tokens), faker)

\* generateRegexPattern: new RandExp throws on text that is no regular
\* expression and the catch rethrows; otherwise gen() with randInt set.
generateRegexPattern(regexValue, faker) ==
  IF ~regexValue.compiles THEN [threw |-> TRUE, value |-> <<>>, faker |-> faker]
  ELSE LET r == randexpGen(regexValue.tokens, faker) IN
         [threw |-> FALSE, value |-> r.text, faker |-> r.faker]

RECURSIVE test(_, _, _, _)
\* RegExp.prototype.test of the expression between ^ and $: the tokens from
\* k on match str from position p to its end.
test(tokens, k, str, p) ==
  IF k > Len(tokens) THEN p = Len(str) + 1
  ELSE LET token == tokens[k] IN
    IF token.type = "set"
    THEN \E n \in token.min..token.max :
           /\ p + n - 1 <= Len(str)
           /\ \A q \in p..(p + n - 1) : str[q] \in Range(token.chars)
           /\ test(tokens, k + 1, str, p + n)
    ELSE IF token.type = "followedBy"
    THEN p <= Len(str) /\ str[p] \in Range(token.chars) /\ test(tokens, k + 1, str, p)
    ELSE IF token.chars = <<"$">>
    THEN p = Len(str) + 1 /\ test(tokens, k + 1, str, p)
    ELSE p = 1 /\ test(tokens, k + 1, str, p)

\* A pattern is [fieldName, type, value]; the patterns of a call are a
\* sequence of them in the key order of the object.  The value is a string
\* (text), a list of strings (values), a range (min, max, precision) or a
\* regular expression (compiles, tokens), the parts it does not have left
\* empty.
Pattern(fieldName, type, value) == [fieldName |-> fieldName, type |-> type, value |-> value]

PatternValue(text, values, range, regex) ==
  [text |-> text, values |-> values, min |-> range.min, max |-> range.max,
   precision |-> range.precision, compiles |-> regex.compiles, tokens |-> regex.tokens]

NoRange == [min |-> 0, max |-> 0, precision |-> <<>>]

NoRegex == [compiles |-> FALSE, tokens |-> <<>>]

FormatValue(text) == PatternValue(text, <<>>, NoRange, NoRegex)

EnumValue(values) == PatternValue(<<>>, values, NoRange, NoRegex)

RangeValue(range) == PatternValue(<<>>, <<>>, range, NoRegex)

RegexValue(regex) == PatternValue(<<>>, <<>>, NoRange, regex)

\* generateEnumPattern: throws on an empty list, else
\* faker.helpers.arrayElement, which draws an index with faker.number.int.
generateEnumPattern(enumValues, faker) ==
  IF Len(enumValues) = 0 THEN [threw |-> TRUE, value |-> <<>>, faker |-> faker]
  ELSE LET r == fakerNumberInt(0, Len(enumValues) - 1, faker) IN
         [threw |-> FALSE, value |-> enumValues[r.value + 1], faker |-> r.faker]

\* CustomGenerator.generateFieldValue: the switch on the pattern type.
generatePatternValue(pattern, now, faker) ==
  IF pattern.type = "regex" THEN generateRegexPattern(pattern.value, faker)
  ELSE IF pattern.type = "enum" THEN generateEnumPattern(pattern.value.values, faker)
  ELSE IF pattern.type = "format"
  THEN LET r == generateFormatPattern(pattern.value.text, now, faker) IN
         [threw |-> FALSE, value |-> r.text, faker |-> r.faker]
  ELSE generateRangePattern(pattern.value, faker)

\* The entry of one field put before the entries of the fields after it.
PatternEntries(fieldName, v, rest) ==
  [threw |-> rest.threw,
   values |-> IF rest.threw THEN <<>>
              ELSE <<[fieldName |-> fieldName, value |-> v.value]>> \o rest.values,
   faker |-> rest.faker]

RECURSIVE generatePatternValues(_, _, _)
RECURSIVE PatternValuesAfter(_, _, _)
\* for (const [fieldName, pattern] of Object.entries(options.patterns)):
\* threw, or the [fieldName, value] entries and the stream after them.
generatePatternValues(patterns, now, faker) ==
  IF patterns = <<>> THEN [threw |-> FALSE, values |-> <<>>, faker |-> faker]
  ELSE PatternValuesAfter(patterns, now, generatePatternValue(Head(patterns), now, faker))

\* The rest of the loop once the first pattern has thrown or given v.
PatternValuesAfter(patterns, now, v) ==
  IF v.threw THEN [threw |-> TRUE, values |-> <<>>, faker |-> v.faker]
  ELSE PatternEntries(Head(patterns).fieldName, v,
                      generatePatternValues(Tail(patterns), now, v.faker))

\* new CustomGenerator with a resolved seed: the stream and recordIndex = 0.
CustomGenerator(sd) == [seed |-> sd, pos |-> 0, recordIndex |-> 0]

\* BaseGenerator.generateId: `${prefix}_${this.seed}_${index}`.
generateId(prefix, gen, index) == [kind |-> "id", name |-> prefix, n |-> gen.seed, m |-> index]

\* const record = { id }; record[fieldName] = value for the entries v.
RecordOf(id, v) ==
  [threw |-> v.threw, record |-> [id |-> id, values |-> v.values], gen |-> v.faker]

\* The record generate() and the generateFn of generateMany build with the
\* id of the given index.
CustomRecord(patterns, now, gen, index) ==
  RecordOf(generateId("custom", gen, index), generatePatternValues(patterns, now, gen))

\* The array [record] of the handler, or the exception of the record.
OneRecord(r) ==
  [threw |-> r.threw, records |-> IF r.threw THEN <<>> ELSE <<r.record>>, gen |-> r.gen]

\* CustomGenerator.generate: the id is generateId('custom', recordIndex++).
generate(patterns, now, gen) ==
  OneRecord(CustomRecord(patterns, now, [gen EXCEPT !.recordIndex = @ + 1], gen.recordIndex))

\* A record put before the records after it.
PrependRecord(record, rest) ==
  [threw |-> rest.threw,
   records |-> IF rest.threw THEN <<>> ELSE <<record>> \o rest.records,
   gen |-> rest.gen]

RECURSIVE ArrayFrom(_, _, _, _, _)
RECURSIVE ArrayFromAfter(_, _, _, _, _)
\* Array.from({ length }, (_, idx) => generateFn(first + idx)) from idx on.
ArrayFrom(patterns, now, gen, first, length) ==
  IF length <= 0 THEN [threw |-> FALSE, records |-> <<>>, gen |-> gen]
  ELSE ArrayFromAfter(patterns, now, first, length, CustomRecord(patterns, now, gen, first))

\* The rest of Array.from once generateFn has thrown or returned r.
ArrayFromAfter(patterns, now, first, length, r) ==
  IF r.threw THEN [threw |-> TRUE, records |-> <<>>, gen |-> r.gen]
  ELSE PrependRecord(r.record, ArrayFrom(patterns, now, r.gen, first + 1, length - 1))

\* Math.floor of a number [num, scale].
Floor(v) == v.num \div Pow10(v.scale)

\* Math.min(batchSize, count - ib * batchSize) as Array.from takes it, the
\* integer part.
CurrentBatchSize(count, ib) ==
  Min(DefaultBatchSize,
      Floor([num |-> count.num - ib * DefaultBatchSize * Pow10(count.scale),
             scale |-> count.scale]))

RECURSIVE CustomBatchLoop(_, _, _, _, _, _)
RECURSIVE CustomBatchLoopAfter(_, _, _, _, _, _)
\* The loop of batchGenerate(count, generateFn) from iteration ib on, count
\* being a number [num, scale]: batches = Math.ceil(count / batchSize), and
\* each batch comes from Array.from.
CustomBatchLoop(patterns, now, gen, count, ib, acc) ==
  IF ib >= CeilDiv(count.num, DefaultBatchSize * Pow10(count.scale))
  THEN [threw |-> FALSE, records |-> acc, gen |-> gen]
  ELSE CustomBatchLoopAfter(patterns, now, count, ib, acc,
         ArrayFrom(patterns, now, gen, ib * DefaultBatchSize, CurrentBatchSize(count, ib)))

\* results.push(...batch) and the iterations after it.
CustomBatchLoopAfter(patterns, now, count, ib, acc, b) ==
  IF b.threw THEN [threw |-> TRUE, records |-> <<>>, gen |-> b.gen]
  ELSE CustomBatchLoop(patterns, now, b.gen, count, ib + 1, acc \o b.records)

\* CustomGenerator.generateMany: batchGenerate with the ids of the indices
\* 0, 1, ...; recordIndex is neither read nor written.
generateMany(count, patterns, now, gen) ==
  CustomBatchLoop(patterns, now, gen, count, 0, <<>>)

\* ------------------------------------------------------- generate-custom tool
\* validateRegexPattern, validateEnumPattern, validateRangePattern throw.
validateRegexPattern(regexValue) == ~regexValue.compiles

validateEnumPattern(enumValues) == Len(enumValues) = 0

validateRangePattern(rangeValue) ==
  \/ rangeValue.min > rangeValue.max
  \/ rangeValue.precision # <<>> /\ rangeValue.precision[1] < 0

\* The switch of validatePatterns for one pattern throws.
validatePattern(pattern) ==
  IF pattern.type = "regex" THEN validateRegexPattern(pattern.value)
  ELSE IF pattern.type = "enum" THEN validateEnumPattern(pattern.value.values)
  ELSE IF pattern.type = "format" THEN validateFormatPattern(pattern.value.text)
  ELSE validateRangePattern(pattern.value)

\* validatePatterns passing every pattern.
validatePatternsNothing(patterns) == [threw |-> FALSE, fieldName |-> ""]

\* validatePatterns: threw `Invalid pattern for field '${fieldName}': ...`
\* for the first field whose pattern is refused.
validatePatterns(patterns) ==
  LET bad == {k \in 1..Len(patterns) : validatePattern(patterns[k])} IN
    IF bad = {} THEN [threw |-> FALSE, fieldName |-> ""]
    ELSE [threw |-> TRUE, fieldName |-> patterns[First(bad)].fieldName]

\* What a call gives back: the records or the error, the field the error
\* names, the seed of the metadata and the generator the call has used
\* (<<>> when it has constructed none).
CustomOutcome(call, count, ok, error, fieldName, data, sd, gen) ==
  [call |-> call, count |-> count, ok |-> ok, error |-> error, fieldName |-> fieldName,
   data |-> data, seed |-> sd, generator |-> gen]

\* The response built from the records, or the exception thrown on.
ToolResponse(count, r) ==
  IF r.threw
  THEN CustomOutcome("tool", count, FALSE, "Generation error", "", <<>>, 0, <<r.gen>>)
  ELSE CustomOutcome("tool", count, TRUE, "", "", r.records, r.gen.seed, <<r.gen>>)

\* new CustomGenerator, then generate for count === 1 and generateMany
\* otherwise.
ToolGenerate(args, count, now, resolved) ==
  IF resolved.threw
  THEN CustomOutcome("tool", count, FALSE, resolved.error, "", <<>>, 0, <<>>)
  ELSE ToolResponse(count,
         IF count = [num |-> 1, scale |-> 0]
         THEN generate(args.patterns, now, CustomGenerator(resolved.seed))
         ELSE generateMany(count, args.patterns, now, CustomGenerator(resolved.seed)))

\* The handler after validatePatterns.
ToolValidated(args, count, now, validation) ==
  IF validation.threw
  THEN CustomOutcome("tool", count, FALSE, "Invalid pattern", validation.fieldName,
                     <<>>, 0, <<>>)
  ELSE ToolGenerate(args, count, now, getOrGenerateSeed(args.seed, <<>>, now))

\* The handler after GenerateCustomSchema.parse has applied the default
\* count: the checks of the schema, then validatePatterns.
ToolParsed(args, count, now) ==
  IF \/ count.num < Pow10(count.scale)
     \/ count.num > MaxCustomCount * Pow10(count.scale)
     \/ Len(args.patterns) = 0
  THEN CustomOutcome("tool", count, FALSE, "Invalid parameters", "", <<>>, 0, <<>>)
  ELSE ToolValidated(args, count, now, validatePatterns(args.patterns))

\* handleGenerateCustom(args) with Date.now() = now.
handleGenerateCustom(args, now) ==
  ToolParsed(args, IF args.count = <<>> THEN [num |-> 1, scale |-> 0] ELSE args.count[1], now)

\* What a call of generate or generateMany on the class gives back.
CallOutcome(call, count, r) ==
  CustomOutcome(call, count, ~r.threw, IF r.threw THEN "Generation error" ELSE "", "",
                r.records, r.gen.seed, <<r.gen>>)

\* The patterns of the calls: good ones of each type, a range with
\* min > max, an empty enum list, text that is no regular expression, a bad
\* pattern after a good one, two bad ones, and no pattern at all.
CustomPatterns ==
  LET goodEnum(f) == Pattern(f, "enum", EnumValue(<<"x", "y">>))
      badEnum(f) == Pattern(f, "enum", EnumValue(<<>>))
      goodRange(f) == Pattern(f, "range",
                        RangeValue([min |-> 1, max |-> 3, precision |-> <<>>]))
      badRange(f) == Pattern(f, "range",
                       RangeValue([min |-> 2, max |-> 1, precision |-> <<>>]))
      goodRegex(f) == Pattern(f, "regex",
                        RegexValue([compiles |-> TRUE,
                                    tokens |-> <<CharSet(<<"a", "b">>, 1, 2)>>]))
      badRegex(f) == Pattern(f, "regex", RegexValue([compiles |-> FALSE, tokens |-> <<>>]))
      goodFormat(f) == Pattern(f, "format",
                         FormatValue(<<"-", "{", "{", "number:", "1", "}", "}">>))
  IN { <<goodEnum("a")>>, <<goodRange("a")>>, <<goodRegex("a")>>, <<goodFormat("a")>>,
       <<badRange("a")>>, <<badEnum("a")>>, <<badRegex("a")>>,
       <<goodEnum("a"), badRange("b")>>, <<badRange("a"), badEnum("b")>>, <<>> }

\* The counts: none, 0, 1, ..., MaxCount, and 1.5, ..., MaxCount + 0.5.
CustomCounts ==
  {<<>>} \cup {<<[num |-> n, scale |-> 0]>> : n \in 0..MaxCount}
         \cup {<<[num |-> 10 * n + 5, scale |-> 1]>> : n \in 1..MaxCount}

\* ------------------------------------------------------------ topological sort
\* The edges added by the build loop of topologicalSort, in order:
\* <<referencing entity, referenced entity>>, self-references skipped.
SortEdges(schema) ==
  Flatten([k \in 1..Len(schema.keys) |->
             LET name == schema.keys[k]
                 rels == schema.defs[name].relationships IN
               Flatten([j \in 1..Len(rels) |->
                          IF rels[j].references = name THEN <<>>
                          ELSE <<<<name, rels[j].references>>>>])])

\* graph: referenced entity -> the entities pushed on its list; an edge to
\* an entity that is not a key is not pushed (graph.get(...)?.push).
SortGraph(schema) ==
  [t \in Range(schema.keys) |->
     LET edges == SortEdges(schema) IN
       Flatten([k \in 1..Len(edges) |->
                  IF edges[k][2] = t THEN <<edges[k][1]>> ELSE <<>>])]

\* inDegree: incremented once for every edge of the entity.
InDegree(schema) ==
  [name \in Range(schema.keys) |->
     Len(SelectSeq(SortEdges(schema), LAMBDA ed : ed[1] = name))]

RECURSIVE Relax(_, _, _)
\* The loop over the neighbours of the dequeued entity.
Relax(neighbors, inDegree, queue) ==
  IF neighbors = <<>> THEN [inDegree |-> inDegree, queue |-> queue]
  ELSE LET neighbor == Head(neighbors)
           newDegree == inDegree[neighbor] - 1
       IN Relax(Tail(neighbors), [inDegree EXCEPT ![neighbor] = newDegree],
                IF newDegree = 0 THEN Append(queue, neighbor) ELSE queue)

RECURSIVE Kahn(_, _, _, _)
\* while (queue.length > 0)
Kahn(graph, inDegree, queue, sorted) ==
  IF Len(queue) = 0 THEN sorted
  ELSE LET current == Head(queue)
           r == Relax(graph[current], inDegree, Tail(queue))
       IN Kahn(graph, r.inDegree, r.queue, Append(sorted, current))

\* topologicalSort returning the entities in key order.
topologicalSortKeyOrder(schema) == [threw |-> FALSE, sorted |-> schema.keys]

\* topologicalSort: threw, or the sorted entity names.
topologicalSort(schema) ==
  LET inDegree == InDegree(schema)
      sorted == Kahn(SortGraph(schema), inDegree,
                     SelectSeq(schema.keys, LAMBDA name : inDegree[name] = 0), <<>>)
  IN [threw |-> Len(sorted) # Len(schema.keys), sorted |-> sorted]

\* ------------------------------------------------------------------ actions
Init ==
  /\ params \in [schema : GraphSchemas, seed : {<<1>>}]
                \cup [schema : FieldSchemas \cup InvalidSchemas, seed : SeedArgs]
  /\ clock = ClockStart
  /\ pc = "idle"
  /\ schemaValidation = <<>>
  /\ generator = <<>>
  /\ sortedEntities = <<>>
  /\ entityIndex = 1
  /\ dataset = <<>>
  /\ entityCounts = <<>>
  /\ entities = <<>>
  /\ i = 0
  /\ results = <<>>

\* A failing call that returns the dataset built so far instead of throwing.
ReturnedPartially(error, errors) ==
  [ok |-> TRUE, error |-> error, errors |-> errors, dataset |-> dataset,
   metadata |-> [entityCounts |-> entityCounts, totalRecords |-> 0, seed |-> 0],
   request |-> params]

\* A call that ends with `throw new Error(...)`; the response goes to the
\* caller that sent the request.
Thrown(error, errors) ==
  [ok |-> FALSE, error |-> error, errors |-> errors, dataset |-> <<>>,
   metadata |-> [entityCounts |-> <<>>, totalRecords |-> 0, seed |-> 0],
   request |-> params]

\* A call that returns the Generation Result.
Returned(ds, metadata) ==
  [ok |-> TRUE, error |-> "", errors |-> <<>>, dataset |-> ds, metadata |-> metadata,
   request |-> params]

\* handleGenerateDataset up to the call of generator.generateDataset: parse
\* the parameters, validate the schema, construct the generator.
HandleGenerateDataset ==
  /\ pc \in {"idle", "done", "failed"}
  /\ Len(results) < MaxCalls
  /\ sortedEntities' = <<>> /\ entityIndex' = 1 /\ dataset' = <<>>
  /\ entityCounts' = <<>> /\ entities' = <<>> /\ i' = 0
  /\ UNCHANGED params
  /\ LET issues == ZodIssues(params.schema)
         validation == validateDatasetSchema(params.schema)
     IN IF Len(issues) > 0
        THEN /\ pc' = "failed"
             /\ results' = Append(results, Thrown("Validation error", issues))
             /\ schemaValidation' = <<>> /\ generator' = <<>>
             /\ UNCHANGED clock
        ELSE IF ~validation.valid
        THEN /\ pc' = "failed"
             /\ results' = Append(results, Thrown("Invalid dataset schema", validation.errors))
             /\ schemaValidation' = <<validation>> /\ generator' = <<>>
             /\ UNCHANGED clock
        ELSE IF getOrGenerateSeed(params.seed, <<>>, clock).threw
        THEN /\ pc' = "failed"
             /\ results' = Append(results, Thrown("Invalid seed", <<>>))
             /\ schemaValidation' = <<validation>> /\ generator' = <<>>
             /\ UNCHANGED clock
        ELSE \E t1, t2, t3 \in clock..Min(clock + 1, ClockStart + MaxTicks) :
               /\ t1 <= t2 /\ t2 <= t3
               /\ params.seed # <<>> => t3 = clock
               /\ clock' = t3
               /\ generator' = <<DatasetGenerator(params.seed, t1, t2, t3)>>
               /\ schemaValidation' = <<validation>>
               /\ pc' = "ordering"
               /\ UNCHANGED results

\* The entity of the current iteration of the loop of generateDataset.
entityName == sortedEntities[entityIndex]

entityDef == params.schema.defs[entityName]

\* generateDataset: const sortedEntities = this.topologicalSort(schema)
TopologicalSort ==
  /\ pc = "ordering"
  /\ LET r == topologicalSort(params.schema) IN
       IF r.threw
       THEN /\ pc' = "failed"
            /\ results' = Append(results, Thrown("Circular dependencies detected in schema", <<>>))
            /\ UNCHANGED sortedEntities
       ELSE /\ pc' = "generating"
            /\ sortedEntities' = r.sorted
            /\ UNCHANGED results
  /\ UNCHANGED <<params, clock, schemaValidation, generator, entityIndex, dataset,
                 entityCounts, entities, i>>

\* dataset[entityName] = entities; entityCounts[entityName] = entities.length
StoreEntities(records) ==
  /\ dataset' = PropSet(dataset, entityName, records)
  /\ entityCounts' = PropSet(entityCounts, entityName, Len(records))
  /\ entityIndex' = entityIndex + 1

\* generatePersonEntities for the current entity, and the loop body after it.
GeneratePersonEntities ==
  /\ pc = "generating" /\ entityIndex <= Len(sortedEntities)
  /\ entityDef.type = "person"
  /\ LET b == batchGenerate("person", PersonFields, generator[1].personGenerator,
                            entityDef.count)
         u == UpdateIds(b.records, entityName, generator[1].idPool)
     IN /\ generator' = [generator EXCEPT ![1].personGenerator = b.gen,
                                          ![1].idPool = u.idPool]
        /\ StoreEntities(u.records)
  /\ UNCHANGED <<params, clock, pc, schemaValidation, sortedEntities, entities, i, results>>

\* generateCompanyEntities for the current entity, and the loop body after it.
GenerateCompanyEntities ==
  /\ pc = "generating" /\ entityIndex <= Len(sortedEntities)
  /\ entityDef.type = "company"
  /\ LET b == batchGenerate("company", CompanyFields, generator[1].companyGenerator,
                            entityDef.count)
         u == UpdateIds(b.records, entityName, generator[1].idPool)
     IN /\ generator' = [generator EXCEPT ![1].companyGenerator = b.gen,
                                          ![1].idPool = u.idPool]
        /\ StoreEntities(u.records)
  /\ UNCHANGED <<params, clock, pc, schemaValidation, sortedEntities, entities, i, results>>

\* The loop of generateCustomEntities running while i <= count.
LoopContinuesInclusive == i * 10 <= entityDef.count * 10 + entityDef.fraction

\* for (let i = 0; i < count; i++)
LoopContinues == i * 10 < entityDef.count * 10 + entityDef.fraction

\* One iteration of the loop of generateCustomEntities: the id, then the
\* fields in order.
GenerateCustomRecord ==
  /\ pc = "generating" /\ entityIndex <= Len(sortedEntities)
  /\ entityDef.type = "custom"
  /\ LoopContinues
  /\ LET g == generateEntityId(generator[1].idPool, entityName)
         st == GenerateFields(entityDef.fields, entityDef.relationships, g.idPool,
                              [entity |-> [k \in {"id"} |-> g.id],
                               faker |-> generator[1].faker, threw |-> FALSE])
     IN /\ generator' = [generator EXCEPT ![1].idPool = g.idPool, ![1].faker = st.faker]
        /\ IF st.threw
           THEN /\ pc' = "failed"
                /\ results' = Append(results, Thrown("No IDs available for entity", <<>>))
                /\ UNCHANGED <<entities, i>>
           ELSE /\ entities' = Append(entities, st.entity)
                /\ i' = i + 1
                /\ UNCHANGED <<pc, results>>
  /\ UNCHANGED <<params, clock, schemaValidation, sortedEntities, entityIndex, dataset,
                 entityCounts>>

\* generateCustomEntities returns, and the loop body after it.
ReturnCustomEntities ==
  /\ pc = "generating" /\ entityIndex <= Len(sortedEntities)
  /\ entityDef.type = "custom"
  /\ ~LoopContinues
  /\ StoreEntities(entities)
  /\ entities' = <<>> /\ i' = 0
  /\ UNCHANGED <<params, clock, pc, schemaValidation, generator, sortedEntities, results>>

\* generateDataset after the loop: the metadata and the return, then the
\* handler returns the result.
ReturnDataset ==
  /\ pc = "generating" /\ entityIndex > Len(sortedEntities)
  /\ pc' = "done"
  /\ results' = Append(results,
       Returned(dataset, [entityCounts |-> entityCounts,
                          totalRecords |-> SumSeq(ObjValues(entityCounts)),
                          seed |-> generator[1].seed]))
  /\ UNCHANGED <<params, clock, schemaValidation, generator, sortedEntities, entityIndex,
                 dataset, entityCounts, entities, i>>

Next ==
  \/ HandleGenerateDataset
  \/ TopologicalSort
  \/ GeneratePersonEntities
  \/ GenerateCompanyEntities
  \/ GenerateCustomRecord
  \/ ReturnCustomEntities
  \/ ReturnDataset

Spec == Init /\ [][Next]_vars

\* A caller of the class: it constructs one DatasetGenerator and calls
\* generateDataset on it, with a schema that no validator has seen.
InitLibrary ==
  /\ params \in [schema : LibrarySchemas, seed : {<<-1>>, <<1>>}]
  /\ clock = ClockStart
  /\ pc = "idle"
  /\ schemaValidation = <<>>
  /\ generator = <<>>
  /\ sortedEntities = <<>>
  /\ entityIndex = 1
  /\ dataset = <<>>
  /\ entityCounts = <<>>
  /\ entities = <<>>
  /\ i = 0
  /\ results = <<>>

\* new DatasetGenerator({seed}), then generator.generateDataset(schema).
NewDatasetGenerator ==
  /\ pc = "idle"
  /\ Len(results) < MaxCalls
  /\ sortedEntities' = <<>> /\ entityIndex' = 1 /\ dataset' = <<>>
  /\ entityCounts' = <<>> /\ entities' = <<>> /\ i' = 0
  /\ UNCHANGED <<params, clock, schemaValidation>>
  /\ IF getOrGenerateSeed(params.seed, <<>>, clock).threw
     THEN /\ pc' = "failed"
          /\ results' = Append(results, Thrown("Invalid seed", <<>>))
          /\ generator' = <<>>
     ELSE /\ generator' = <<DatasetGenerator(params.seed, clock, clock, clock)>>
          /\ pc' = "ordering"
          /\ UNCHANGED results

\* generator.generateDataset(schema) called once more on the same
\* DatasetGenerator: dataset and entityCounts are new objects of the call,
\* the generators and the ID pool are fields of the object.
GenerateDatasetAgain ==
  /\ pc \in {"done", "failed"} /\ generator # <<>>
  /\ Len(results) < MaxCalls
  /\ pc' = "ordering"
  /\ sortedEntities' = <<>> /\ entityIndex' = 1 /\ dataset' = <<>>
  /\ entityCounts' = <<>> /\ entities' = <<>> /\ i' = 0
  /\ UNCHANGED <<params, clock, schemaValidation, generator, results>>

NextLibrary ==
  \/ NewDatasetGenerator
  \/ GenerateDatasetAgain
  \/ TopologicalSort
  \/ GeneratePersonEntities
  \/ GenerateCompanyEntities
  \/ GenerateCustomRecord
  \/ ReturnCustomEntities
  \/ ReturnDataset

SpecLibrary == InitLibrary /\ [][NextLibrary]_vars

\* A generator constructed with a seed, a seed string, both or neither.
InitSeed ==
  /\ params \in [seed : SeedArgs, seedString : SeedStrings]
  /\ clock = ClockStart
  /\ pc = "idle"
  /\ schemaValidation = <<>>
  /\ generator = <<>>
  /\ sortedEntities = <<>>
  /\ entityIndex = 1
  /\ dataset = <<>>
  /\ entityCounts = <<>>
  /\ entities = <<>>
  /\ i = 0
  /\ results = <<>>

\* new PersonGenerator({seed, seedString}): the constructor of BaseGenerator
\* at some time `now`, and getSeed() on the object if there is one.
ConstructGenerator ==
  /\ Len(results) < MaxCalls
  /\ \E now \in clock..Min(clock + 1, ClockStart + MaxTicks) :
       LET r == getOrGenerateSeed(params.seed, params.seedString, now) IN
         /\ clock' = now
         /\ generator' = IF r.threw THEN <<>> ELSE <<BaseGenerator(r.seed)>>
         /\ pc' = IF r.threw THEN "failed" ELSE "done"
         /\ results' = Append(results, [threw |-> r.threw, error |-> r.error,
                                        seed |-> r.seed, now |-> now])
  /\ UNCHANGED <<params, schemaValidation, sortedEntities, entityIndex, dataset,
                 entityCounts, entities, i>>

NextSeed == ConstructGenerator

SpecSeed == InitSeed /\ [][NextSeed]_vars

\* generateMany(count) of a PersonGenerator whose batchGenerate runs with the
\* batch size params.batchSize.
InitBatch ==
  /\ params \in [count : 0..MaxBatchCount, batchSize : 1..MaxBatchSize, seed : 0..MaxSeed]
  /\ clock = ClockStart
  /\ pc = "batching"
  /\ schemaValidation = <<>>
  /\ generator = <<BaseGenerator(params.seed)>>
  /\ sortedEntities = <<>>
  /\ entityIndex = 1
  /\ dataset = <<>>
  /\ entityCounts = <<>>
  /\ entities = <<>>
  /\ i = 0
  /\ results = <<>>

\* One iteration of the loop of batchGenerate; `entities` is its `results`.
GenerateBatch ==
  /\ pc = "batching"
  /\ i < CeilDiv(params.count, params.batchSize)
  /\ LET b == Batch("person", PersonFields, generator[1], params.count,
                    params.batchSize, i)
     IN /\ entities' = entities \o b.records
        /\ generator' = <<b.gen>>
  /\ i' = i + 1
  /\ UNCHANGED <<params, clock, pc, schemaValidation, sortedEntities, entityIndex,
                 dataset, entityCounts, results>>

\* return results
ReturnBatch ==
  /\ pc = "batching"
  /\ i >= CeilDiv(params.count, params.batchSize)
  /\ pc' = "done"
  /\ results' = Append(results, entities)
  /\ UNCHANGED <<params, clock, schemaValidation, generator, sortedEntities,
                 entityIndex, dataset, entityCounts, entities, i>>

NextBatch ==
  \/ GenerateBatch
  \/ ReturnBatch

SpecBatch == InitBatch /\ [][NextBatch]_vars

\* Tool calls with schemas of many records.
InitTotals ==
  /\ params \in [schema : TotalSchemas, seed : {<<sd>> : sd \in 0..MaxSeed}]
  /\ clock = ClockStart
  /\ pc = "idle"
  /\ schemaValidation = <<>>
  /\ generator = <<>>
  /\ sortedEntities = <<>>
  /\ entityIndex = 1
  /\ dataset = <<>>
  /\ entityCounts = <<>>
  /\ entities = <<>>
  /\ i = 0
  /\ results = <<>>

SpecTotals == InitTotals /\ [][Next]_vars

\* Tool calls with schemas whose entity names are unusual.
InitNames ==
  /\ params \in [schema : NameSchemas, seed : {<<1>>}]
  /\ clock = ClockStart
  /\ pc = "idle"
  /\ schemaValidation = <<>>
  /\ generator = <<>>
  /\ sortedEntities = <<>>
  /\ entityIndex = 1
  /\ dataset = <<>>
  /\ entityCounts = <<>>
  /\ entities = <<>>
  /\ i = 0
  /\ results = <<>>

SpecNames == InitNames /\ [][Next]_vars

\* A CustomGenerator asked for values of one range pattern, one after the
\* other on its stream.
InitRange ==
  /\ params \in [range : RangePatterns, seed : 0..MaxSeed]
  /\ clock = ClockStart
  /\ pc = "idle"
  /\ schemaValidation = <<>>
  /\ generator = <<BaseGenerator(params.seed)>>
  /\ sortedEntities = <<>>
  /\ entityIndex = 1
  /\ dataset = <<>>
  /\ entityCounts = <<>>
  /\ entities = <<>>
  /\ i = 0
  /\ results = <<>>

\* generateFieldValue(pattern) for a pattern of type range.
GenerateRangeValue ==
  /\ Len(results) < MaxCalls
  /\ LET r == generateRangePattern(params.range, generator[1]) IN
       /\ generator' = <<r.faker>>
       /\ pc' = IF r.threw THEN "failed" ELSE "done"
       /\ results' = Append(results, [threw |-> r.threw, value |-> r.value])
  /\ UNCHANGED <<params, clock, schemaValidation, sortedEntities, entityIndex, dataset,
                 entityCounts, entities, i>>

NextRange == GenerateRangeValue

SpecRange == InitRange /\ [][NextRange]_vars

\* The generate-custom tool called with one format pattern: validatePatterns,
\* then a CustomGenerator and generateFieldValue.
InitFormat ==
  /\ params \in [format : FormatValues, seed : 0..MaxSeed]
  /\ clock \in {2026 - EpochYear, 2027 - EpochYear}
  /\ pc = "idle"
  /\ schemaValidation = <<>>
  /\ generator = <<>>
  /\ sortedEntities = <<>>
  /\ entityIndex = 1
  /\ dataset = <<>>
  /\ entityCounts = <<>>
  /\ entities = <<>>
  /\ i = 0
  /\ results = <<>>

\* validatePatterns, and new CustomGenerator when it does not throw.
ValidateFormat ==
  /\ pc = "idle"
  /\ IF validateFormatPattern(params.format)
     THEN pc' = "failed" /\ UNCHANGED generator
     ELSE pc' = "validated" /\ generator' = <<BaseGenerator(params.seed)>>
  /\ UNCHANGED <<params, clock, schemaValidation, sortedEntities, entityIndex, dataset,
                 entityCounts, entities, i, results>>

\* generateFieldValue(pattern) for a pattern of type format.
GenerateFormatValue ==
  /\ pc = "validated"
  /\ LET r == generateFormatPattern(params.format, clock, generator[1]) IN
       /\ generator' = <<r.faker>>
       /\ results' = Append(results, [value |-> r.text])
  /\ pc' = "done"
  /\ UNCHANGED <<params, clock, schemaValidation, sortedEntities, entityIndex, dataset,
                 entityCounts, entities, i>>

NextFormat == ValidateFormat \/ GenerateFormatValue

SpecFormat == InitFormat /\ [][NextFormat]_vars

\* Custom generation, through the tool or on a CustomGenerator the caller
\* has constructed.
InitCustom ==
  /\ params \in [count : CustomCounts, patterns : CustomPatterns, seed : SeedArgs]
  /\ clock = ClockStart
  /\ pc = "idle"
  /\ schemaValidation = <<>>
  /\ generator = <<>>
  /\ sortedEntities = <<>>
  /\ entityIndex = 1
  /\ dataset = <<>>
  /\ entityCounts = <<>>
  /\ entities = <<>>
  /\ i = 0
  /\ results = <<>>

\* The generate-custom tool called with the parameters.
HandleGenerateCustom ==
  /\ pc = "idle"
  /\ results' = Append(results, handleGenerateCustom(params, clock))
  /\ pc' = IF results'[Len(results')].ok THEN "done" ELSE "failed"
  /\ UNCHANGED <<params, clock, schemaValidation, generator, sortedEntities, entityIndex,
                 dataset, entityCounts, entities, i>>

\* new CustomGenerator({ seed }) by a caller of the class.
NewCustomGenerator ==
  /\ pc = "idle"
  /\ LET resolved == getOrGenerateSeed(params.seed, <<>>, clock) IN
       IF resolved.threw
       THEN /\ pc' = "failed"
            /\ results' = Append(results, CustomOutcome("new", [num |-> 0, scale |-> 0], FALSE,
                                                        resolved.error, "", <<>>, 0, <<>>))
            /\ UNCHANGED generator
       ELSE /\ pc' = "ready"
            /\ generator' = <<CustomGenerator(resolved.seed)>>
            /\ UNCHANGED results
  /\ UNCHANGED <<params, clock, schemaValidation, sortedEntities, entityIndex, dataset,
                 entityCounts, entities, i>>

\* generator.generate({ patterns })
CallGenerate ==
  /\ pc = "ready"
  /\ Len(results) < MaxCalls
  /\ results' = Append(results, CallOutcome("generate", [num |-> 1, scale |-> 0],
                                            generate(params.patterns, clock, generator[1])))
  /\ generator' = results'[Len(results')].generator
  /\ UNCHANGED <<params, clock, pc, schemaValidation, sortedEntities, entityIndex, dataset,
                 entityCounts, entities, i>>

\* generator.generateMany(count, { patterns })
CallGenerateMany ==
  /\ pc = "ready"
  /\ Len(results) < MaxCalls
  /\ params.count # <<>>
  /\ results' = Append(results,
       CallOutcome("generateMany", params.count[1],
                   generateMany(params.count[1], params.patterns, clock, generator[1])))
  /\ generator' = results'[Len(results')].generator
  /\ UNCHANGED <<params, clock, pc, schemaValidation, sortedEntities, entityIndex, dataset,
                 entityCounts, entities, i>>

NextCustom ==
  \/ HandleGenerateCustom
  \/ NewCustomGenerator
  \/ CallGenerate
  \/ CallGenerateMany

SpecCustom == InitCustom /\ [][NextCustom]_vars

\* A CustomGenerator asked for values of one regex pattern, and constructed
\* again with the same seed.
InitRegex ==
  /\ params \in [regex : RegexValues, seed : 0..MaxSeed]
  /\ clock = ClockStart
  /\ pc = "idle"
  /\ schemaValidation = <<>>
  /\ generator = <<BaseGenerator(params.seed)>>
  /\ sortedEntities = <<>>
  /\ entityIndex = 1
  /\ dataset = <<>>
  /\ entityCounts = <<>>
  /\ entities = <<>>
  /\ i = 0
  /\ results = <<>>

\* new CustomGenerator({ seed }) once more.
NewRegexGenerator ==
  /\ generator # <<BaseGenerator(params.seed)>>
  /\ Len(results) < MaxCalls
  /\ generator' = <<BaseGenerator(params.seed)>>
  /\ UNCHANGED <<params, clock, pc, schemaValidation, sortedEntities, entityIndex, dataset,
                 entityCounts, entities, i, results>>

\* What generateFieldValue did: threw or the value, and where the stream
\* was when it was called and is after it.
RegexOutcome(pos, r) == [threw |-> r.threw, value |-> r.value, pos |-> pos, faker |-> r.faker]

\* generateFieldValue(pattern) for a pattern of type regex.
GenerateRegexValue ==
  /\ Len(results) < MaxCalls
  /\ results' = Append(results, RegexOutcome(generator[1].pos,
                                             generateRegexPattern(params.regex, generator[1])))
  /\ generator' = <<results'[Len(results')].faker>>
  /\ pc' = IF results'[Len(results')].threw THEN "failed" ELSE "done"
  /\ UNCHANGED <<params, clock, schemaValidation, sortedEntities, entityIndex, dataset,
                 entityCounts, entities, i>>

NextRegex == NewRegexGenerator \/ GenerateRegexValue

SpecRegex == InitRegex /\ [][NextRegex]_vars

\* The server with several requests in flight: every request waits at
\* `await Promise.resolve()` and the handlers then run one after the other,
\* each to completion, in any order of the requests.
InitRequests ==
  /\ params \in [schema : RequestSchemas, seed : {<<1>>}]
  /\ clock = ClockStart
  /\ pc = "idle"
  /\ schemaValidation = <<>>
  /\ generator = <<>>
  /\ sortedEntities = <<>>
  /\ entityIndex = 1
  /\ dataset = <<>>
  /\ entityCounts = <<>>
  /\ entities = <<>>
  /\ i = 0
  /\ results = <<>>

\* The handler that runs next is the one of a request with other arguments.
NextRequest ==
  /\ pc \in {"idle", "done", "failed"}
  /\ Len(results) < MaxCalls
  /\ \E p \in [schema : RequestSchemas, seed : {<<1>>}] : p # params /\ params' = p
  /\ UNCHANGED <<clock, pc, schemaValidation, generator, sortedEntities, entityIndex,
                 dataset, entityCounts, entities, i, results>>

NextRequests ==
  \/ Next
  \/ NextRequest

SpecRequests == InitRequests /\ [][NextRequests]_vars

\* ------------------------------------------------------- notions of the spec
Schema == params.schema

Keys == Range(Schema.keys)

RelsOf(E) == Range(Schema.defs[E].relationships)

\* idsFor(T) of the generator of the call in progress.
idsFor(T) == getEntityIds(generator[1].idPool, T)

\* The loop of generateDataset is at an entity, whose records are being
\* generated.
Generating == pc = "generating" /\ entityIndex <= Len(sortedEntities)

\* The edges of the relationship graph: E -> T for every relationship of E
\* that references T, nullable self-references excluded.
GraphEdges(schema) ==
  UNION {{<<E, r.references>> :
            r \in {q \in Range(schema.defs[E].relationships) :
                     ~(q.references = E /\ q.nullable = "true")}} :
         E \in Range(schema.keys)}

RECURSIVE TransitiveClosure(_)
TransitiveClosure(R) ==
  LET R2 == R \cup {<<x[1], y[2]>> : x \in R, y \in R}
      R3 == {p \in R2 : p \in R \/ \E x \in R, y \in R :
                                     x[1] = p[1] /\ y[2] = p[2] /\ x[2] = y[1]}
  IN IF R3 = R THEN R ELSE TransitiveClosure(R3)

\* The relationship graph has a cycle.
HasCycle(schema) == \E p \in TransitiveClosure(GraphEdges(schema)) : p[1] = p[2]

BadCount(e) == e.fraction # 0 \/ e.count < 1 \/ e.count > MaxEntityCount

\* The schema breaks a validation rule of the specification.
SchemaViolatesRules(schema) ==
  \/ schema.keys = <<>>
  \/ \E E \in Range(schema.keys) : BadCount(schema.defs[E])
  \/ \E E \in Range(schema.keys) :
       schema.defs[E].type = "custom" /\ schema.defs[E].fields = <<>>
  \/ \E E \in Range(schema.keys) : \E r \in Range(schema.defs[E].relationships) :
       r.references \notin Range(schema.keys)
  \/ HasCycle(schema)

\* The records of entity E in the dataset under construction.
Rows(E) == IF ObjHas(dataset, E) THEN ObjGet(dataset, E) ELSE <<>>

\* Every record of E that exists anywhere: in the dataset, in the list being
\* filled by generateCustomEntities, and in the results already returned.
AllRecordsOf(E) ==
  Range(Rows(E))
  \cup (IF Generating /\ entityName = E THEN Range(entities) ELSE {})
  \cup UNION {IF ObjHas(results[k].dataset, E)
              THEN Range(ObjGet(results[k].dataset, E)) ELSE {} :
              k \in 1..Len(results)}

\* Count(T) of the schema.
CountOf(T) == Schema.defs[T].count

RECURSIVE SumOver(_, _)
SumOver(S, f) ==
  IF S = {} THEN 0 ELSE LET x == CHOOSE y \in S : TRUE IN f[x] + SumOver(S \ {x}, f)

\* ------------------------------------------------------------------- claims

\* C1: in every returned dataset, for every entity E of any archetype and
\* every relationship field f of E referencing T, every record of E has
\* record[f] equal to null or to an identifier of T's ID pool.
C1_ReferentialIntegrity ==
  pc = "done" =>
    \A E \in Keys : \A r \in RelsOf(E) : \A k \in 1..Len(Rows(E)) :
      /\ r.field \in DOMAIN Rows(E)[k]
      /\ \/ Rows(E)[k][r.field] = Null
         \/ Rows(E)[k][r.field] \in Range(idsFor(r.references))

\* C2: every non-null foreign-key value stored in a record of a referencing
\* entity equals the id of some record of the returned dataset under the
\* referenced entity, whatever its archetype and declared fields.
C2_ForeignKeyIsARecordId ==
  pc = "done" =>
    \A E \in Keys : \A r \in RelsOf(E) : \A k \in 1..Len(Rows(E)) :
      (r.field \in DOMAIN Rows(E)[k] /\ Rows(E)[k][r.field] # Null)
        => \E j \in 1..Len(Rows(r.references)) :
             Rows(r.references)[j]["id"] = Rows(E)[k][r.field]

\* C3: a foreign-key field of a relationship whose nullable flag is false or
\* omitted never holds null, in any record generated so far.
C3_NullOnlyIfNullable ==
  \A E \in Keys : \A r \in RelsOf(E) :
    r.nullable # "true" =>
      \A rec \in AllRecordsOf(E) : r.field \in DOMAIN rec => rec[r.field] # Null

\* A returned dataset in which a relationship with the flag omitted got an
\* identifier as its foreign key.
C3_Witness ==
  /\ pc = "done"
  /\ \E E \in Keys : \E r \in RelsOf(E) :
       /\ r.nullable = None
       /\ \E rec \in Range(Rows(E)) : r.field \in DOMAIN rec /\ rec[r.field].kind = "id"

\* C4 as stated: while an entity E is generated, for every relationship of E
\* referencing T, T = E included, all Count(T) identifiers of T are in T's
\* pool and the pool does not change.
C4_OrderingWithSelfReferences ==
  [][Generating =>
       \A r \in RelsOf(entityName) :
         /\ Len(idsFor(r.references)) = CountOf(r.references)
         /\ getEntityIds(generator'[1].idPool, r.references) = idsFor(r.references)]_vars

\* C4 amended: while an entity E is generated, for every relationship of E
\* referencing another entity T, all Count(T) identifiers of T are in T's
\* pool before the first record of E, and no step of E's generation changes
\* T's pool.
C4_Ordering ==
  [][Generating =>
       \A r \in RelsOf(entityName) :
         r.references # entityName =>
           /\ Len(idsFor(r.references)) = CountOf(r.references)
           /\ getEntityIds(generator'[1].idPool, r.references) = idsFor(r.references)]_vars

\* The second key of the schema is generated first, and the entity now
\* being generated references it: one of its two records is done, and the
\* pool of the referenced entity holds two identifiers.
C4_Witness ==
  /\ Generating
  /\ entityName = Schema.keys[1]
  /\ i = 1 /\ CountOf(entityName) = 2
  /\ \E r \in RelsOf(entityName) :
       r.references # entityName /\ Len(idsFor(r.references)) = 2

\* C5: schema validation reports a circular-dependency error exactly when
\* the relationship graph, nullable self-references excluded, has a cycle.
C5_CycleReportedIffCycle ==
  schemaValidation # <<>> =>
    ((\E k \in 1..Len(schemaValidation[1].errors) :
        schemaValidation[1].errors[k].rule = "cycle")
     <=> HasCycle(Schema))

\* Validation reported the cycle of a schema of three entities in which
\* every entity references the next one and no entity itself.
C5_Witness ==
  /\ schemaValidation # <<>>
  /\ \E k \in 1..Len(schemaValidation[1].errors) :
       /\ schemaValidation[1].errors[k].rule = "cycle"
       /\ \E q \in 1..Len(schemaValidation[1].errors[k].detail) :
            Len(schemaValidation[1].errors[k].detail[q]) = 4
  /\ Len(Schema.keys) = 3
  /\ \A E \in Keys : \A r \in RelsOf(E) : r.references # E

\* C6: for a schema that breaks a validation rule, the call fails before a
\* generator exists, so no identifier is allocated, no record is generated
\* and no call returns a Generation Result.
C6_InvalidSchemaFailsEagerly ==
  SchemaViolatesRules(Schema) =>
    /\ pc \in {"idle", "failed"}
    /\ generator = <<>>
    /\ dataset = <<>> /\ entities = <<>>
    /\ \A k \in 1..Len(results) :
         /\ ~results[k].ok
         /\ results[k].error \in {"Validation error", "Invalid dataset schema"}

\* A call failed on a schema whose only violation is a self-reference that
\* is not nullable.
C6_Witness ==
  /\ pc = "failed"
  /\ results[Len(results)].error = "Invalid dataset schema"
  /\ \E E \in Keys : \E r \in RelsOf(E) : r.references = E /\ r.nullable # "true"
  /\ \A E \in Keys : \A r \in RelsOf(E) : r.references = E

\* The rules a schema breaks, by kind.
RulesBroken(schema) ==
  (IF schema.keys = <<>> THEN {"empty"} ELSE {})
  \cup (IF \E E \in Range(schema.keys) : BadCount(schema.defs[E])
        THEN {"count"} ELSE {})
  \cup (IF \E E \in Range(schema.keys) :
             schema.defs[E].type = "custom" /\ schema.defs[E].fields = <<>>
        THEN {"fields"} ELSE {})
  \cup (IF \E E \in Range(schema.keys) : \E r \in Range(schema.defs[E].relationships) :
             r.references \notin Range(schema.keys)
        THEN {"reference"} ELSE {})
  \cup (IF HasCycle(schema) THEN {"cycle"} ELSE {})

\* C7: the error raised for an invalid schema lists every violation of the
\* schema: each kind of rule the schema breaks appears in the error.
C7_ErrorListsEveryViolation ==
  \A k \in 1..Len(results) :
    results[k].error \in {"Validation error", "Invalid dataset schema"} =>
      \A rule \in RulesBroken(Schema) :
        \E q \in 1..Len(results[k].errors) : results[k].errors[q].rule = rule

C9_CountFidelity ==
  \A k \in 1..Len(results) :
    results[k].ok =>
      /\ Range(ObjKeys(results[k].dataset)) = Keys
      /\ Range(ObjKeys(results[k].metadata.entityCounts)) = Keys
      /\ Len(results[k].dataset) = Len(Schema.keys)
      /\ \A E \in Keys :
           /\ Len(ObjGet(results[k].dataset, E)) = CountOf(E)
           /\ ObjGet(results[k].metadata.entityCounts, E) = CountOf(E)
      /\ results[k].metadata.totalRecords
           = SumOver(Keys, [E \in Keys |-> ObjGet(results[k].metadata.entityCounts, E)])

\* A result with a custom entity of two records and a person entity.
C9_Witness ==
  /\ Len(results) > 0 /\ results[1].ok
  /\ results[1].metadata.totalRecords >= 3
  /\ \E E \in Keys : Schema.defs[E].type = "custom" /\ CountOf(E) = 2
  /\ \E E \in Keys : Schema.defs[E].type = "person"

\* C10: the k-th record of entity E carries the id `{E}_{k}` built from the
\* name exactly as written in the schema, and the ids of an entity are
\* pairwise distinct.
C10_IdentifierFormat ==
  pc = "done" =>
    \A E \in Keys :
      /\ \A k \in 1..Len(Rows(E)) : Rows(E)[k]["id"] = IdString(E, k)
      /\ \A j, k \in 1..Len(Rows(E)) : j # k => Rows(E)[j]["id"] # Rows(E)[k]["id"]

\* C11: two generateDataset calls with the same schema and an explicit seed
\* return equal results, also when the second is made on the generator
\* object of the first, and the identifiers of every call begin at index 1.
C11_NoStateSurvivesACall ==
  (params.seed # <<>>) =>
    \A k \in 1..Len(results) :
      results[k].ok =>
        /\ results[k] = results[1]
        /\ \A E \in Keys : \A rec \in Range(ObjGet(results[k].dataset, E)) :
             rec["id"].kind = "id" => rec["id"].n <= CountOf(E)

\* C12: for a fixed seed, the records of an entity without relationships
\* are the same in any two results, whatever other entities without
\* relationships the schemas hold and whichever are generated before it.
C12_PerEntitySeedIndependence ==
  \A j, k \in 1..Len(results) :
    (/\ results[j].ok /\ results[k].ok
     /\ results[j].request.seed = results[k].request.seed
     /\ \A q \in {j, k} : \A E \in Range(results[q].request.schema.keys) :
          results[q].request.schema.defs[E].relationships = <<>>)
    => \A E \in Range(results[j].request.schema.keys)
                \cap Range(results[k].request.schema.keys) :
         results[j].request.schema.defs[E] = results[k].request.schema.defs[E]
           => ObjGet(results[j].dataset, E) = ObjGet(results[k].dataset, E)

\* C13: a call that fails hands no dataset to the caller, and a dataset that
\* is returned holds every entity of the schema with all its records.
C13_FailFastNoPartialResults ==
  \A k \in 1..Len(results) :
    /\ ~results[k].ok => results[k].dataset = <<>>
    /\ results[k].ok =>
         /\ Range(ObjKeys(results[k].dataset)) = Range(results[k].request.schema.keys)
         /\ \A E \in Range(results[k].request.schema.keys) :
              Len(ObjGet(results[k].dataset, E)) = results[k].request.schema.defs[E].count

\* The call failed on an empty reference pool after the records of another
\* entity had been stored in the dataset under construction.
C13_Witness ==
  /\ pc = "failed"
  /\ dataset # <<>>
  /\ results[Len(results)].error = "No IDs available for entity"
  /\ results[Len(results)].dataset = <<>>

Unchunked(count) ==
  [k \in 1..count |->
     LeafRecord("person", PersonFields, [seed |-> params.seed, pos |-> k - 1], k - 1)]

\* C15: for every count >= 0 and batch size >= 1, the records collected by
\* batchGenerate are at every moment a prefix of those of the unchunked loop,
\* and the returned records are all of them, with the stream left where the
\* unchunked loop leaves it.
C15_ChunkingNeverChangesOutput ==
  /\ Len(entities) <= params.count
  /\ entities = SubSeq(Unchunked(params.count), 1, Len(entities))
  /\ generator[1].pos = Len(entities)
  /\ \A k \in 1..Len(results) : results[k] = Unchunked(params.count)

\* batchGenerate returned records that it collected in three batches, the
\* last one shorter than the others.
C15_Witness ==
  /\ pc = "done" /\ Len(results) = 1
  /\ i = 3
  /\ params.batchSize > 1
  /\ params.count % params.batchSize # 0

\* C16: a schema whose counts sum to more than 10000 is rejected by
\* validation: no generator is constructed for it and no call returns a
\* result.
C16_TotalRecordsLimit ==
  SumOver(Keys, [E \in Keys |-> CountOf(E)]) > 10000 =>
    /\ pc \in {"idle", "failed"}
    /\ generator = <<>>
    /\ \A k \in 1..Len(results) : ~results[k].ok

\* The default fields of an archetype, the id apart.
DefaultFields(type) ==
  IF type = "person" THEN PersonFields
  ELSE IF type = "company" THEN CompanyFields
  ELSE {}

\* C17: in every returned dataset, a record of an entity that lists `fields`
\* holds exactly the listed fields and its id, whatever the archetype, and a
\* record of an entity without `fields` holds the default fields of its
\* archetype and its id.
C17_FieldsHonoured ==
  \A k \in 1..Len(results) :
    results[k].ok =>
      \A E \in Range(results[k].request.schema.keys) :
        \A rec \in Range(ObjGet(results[k].dataset, E)) :
          LET def == results[k].request.schema.defs[E] IN
            IF def.fields # <<>>
            THEN DOMAIN rec = Range(def.fields) \cup {"id"}
            ELSE DOMAIN rec = DefaultFields(def.type) \cup {"id"}

\* C18: with several calls in flight, whose handlers run in any order, the
\* result of a call is the same whether its handler runs first, with nothing
\* before it, or after the handlers of other calls.
C18_ConcurrentCallsIsolated ==
  \A j, k \in 1..Len(results) :
    results[j].request = results[k].request => results[j] = results[k]

\* The same request was answered first and again after a request with
\* another schema, in which `Orders` references `users`.
C18_Witness ==
  /\ Len(results) = 3
  /\ results[1].ok /\ results[2].ok /\ results[3].ok
  /\ results[3].request = results[1].request
  /\ results[2].request # results[1].request
  /\ "Orders" \in Range(results[1].request.schema.keys)
  /\ "Orders" \in Range(results[2].request.schema.keys)
  /\ results[2].request.schema.defs["Orders"].relationships # <<>>

RECURSIVE Expands(_, _, _, _, _)
\* output from q on is template from p on with every placeholder of the
\* template replaced (the year, N alphanumeric characters, N digits) and
\* everything else copied.
Expands(template, p, output, q, year) ==
  IF p > Len(template) THEN q = Len(output) + 1
  ELSE LET ph == PlaceholderAt(template, p)
           length == parseInt(MatchDigits(template, p, ph.len))
       IN IF ph.word = "none"
          THEN /\ q <= Len(output)
               /\ output[q] = template[p]
               /\ Expands(template, p + 1, output, q + 1, year)
          ELSE IF ph.word = "year"
          THEN /\ q + Len(year) - 1 <= Len(output)
               /\ SubSeq(output, q, q + Len(year) - 1) = year
               /\ Expands(template, p + ph.len, output, q + Len(year), year)
          ELSE /\ q + length - 1 <= Len(output)
               /\ \A k \in q..(q + length - 1) :
                    output[k] \in (IF ph.word = "random:" THEN Range(AlnumChars)
                                                         ELSE Range(DigitChars))
               /\ Expands(template, p + ph.len, output, q + length, year)

\* C20: the value of a format pattern is its template with every {{year}}
\* replaced by the current year, every {{random:N}} by N alphanumeric
\* characters and every {{number:N}} by N digits, all other text in place;
\* and no recognized placeholder is left in the value.
C20_TemplateExpansion ==
  \A k \in 1..Len(results) :
    /\ Expands(params.format, 1, results[k].value, 1, toString(getFullYear(clock)))
    /\ \A p \in 1..Len(results[k].value) : PlaceholderAt(results[k].value, p).len = 0

\* A range with min > max, an empty enum list, or text that is no regular
\* expression.
PatternError(pattern) ==
  \/ pattern.type = "range" /\ pattern.value.min > pattern.value.max
  \/ pattern.type = "enum" /\ pattern.value.values = <<>>
  \/ pattern.type = "regex" /\ ~pattern.value.compiles

OffendingFields(patterns) ==
  {patterns[k].fieldName : k \in {n \in 1..Len(patterns) : PatternError(patterns[n])}}

C22_CustomBatchCountAndIds ==
  \A k \in 1..Len(results) :
    (results[k].call = "tool" /\ results[k].ok) =>
      /\ results[k].count = [num |-> Len(results[k].data), scale |-> 0]
      /\ \A n \in 1..Len(results[k].data) :
           results[k].data[n].id =
             [kind |-> "id", name |-> "custom", n |-> results[k].seed, m |-> n - 1]
      /\ \A n1, n2 \in 1..Len(results[k].data) :
           n1 # n2 => results[k].data[n1].id # results[k].data[n2].id

\* The records the calls on one CustomGenerator have returned so far.
ReturnedRecords ==
  Flatten([k \in 1..Len(results) |->
             IF results[k].call \in {"generate", "generateMany"} THEN results[k].data
             ELSE <<>>])

\* C30: no two records returned by the generate() and generateMany() calls
\* on one CustomGenerator share an id.
C30_IdsUniquePerInstance ==
  \A n1, n2 \in 1..Len(ReturnedRecords) :
    n1 # n2 => ReturnedRecords[n1].id # ReturnedRecords[n2].id

\* C23: for a regular expression that compiles, every generated value
\* matches the expression anchored at both ends, and two values generated
\* with the same seed from the same place of the stream are the same string.
C23_RegexValuesMatch ==
  params.regex.compiles =>
    /\ \A k \in 1..Len(results) :
         ~results[k].threw /\ test(params.regex.tokens, 1, results[k].value, 1)
    /\ \A j, k \in 1..Len(results) :
         results[j].pos = results[k].pos => results[j].value = results[k].value

\* Parents before children: order holds every entity name of the schema
\* exactly once, and an entity that another one references comes before it.
DependencyOrder(schema, order) ==
  /\ Len(order) = Len(schema.keys)
  /\ Range(order) = Range(schema.keys)
  /\ \A e \in Range(schema.keys) :
       \A k \in 1..Len(schema.defs[e].relationships) :
         LET t == schema.defs[e].relationships[k].references IN
           t # e /\ t \in Range(order) => IndexOf(order, t) < IndexOf(order, e)

\* C24: for a schema that passed validation, the resolved generation order
\* is a permutation of the entity names with every referenced entity before
\* the entities referencing it, and the keys of the returned dataset appear
\* in that order.
C24_DatasetKeysInDependencyOrder ==
  /\ pc = "generating" => DependencyOrder(params.schema, sortedEntities)
  /\ \A k \in 1..Len(results) :
       results[k].ok /\ results[k].error = ""
         => /\ ObjKeys(results[k].dataset) = topologicalSort(results[k].request.schema).sorted
            /\ DependencyOrder(results[k].request.schema, ObjKeys(results[k].dataset))

\* X has a relationship that references Y.
References(schema, x, y) ==
  /\ x \in Range(schema.keys)
  /\ \E k \in 1..Len(schema.defs[x].relationships) :
       schema.defs[x].relationships[k].references = y

\* C25: every path that cycle detection reports starts and ends with the
\* same entity, and each consecutive pair (X, Y) of it is a relationship of X
\* referencing Y.
C25_ReportedPathsAreCycles ==
  \A v \in Range(schemaValidation) :
    \A e \in 1..Len(v.errors) :
      v.errors[e].rule = "cycle" =>
        \A p \in 1..Len(v.errors[e].detail) :
          LET path == v.errors[e].detail[p] IN
            /\ Len(path) >= 2
            /\ path[1] = path[Len(path)]
            /\ \A k \in 1..(Len(path) - 1) : References(params.schema, path[k], path[k + 1])

\* C26: once a schema passed validateDatasetSchema, generation never fails:
\* the topological sort never reports an incomplete order and no
\* foreign-key lookup finds an empty pool.
C26_ValidatedSchemaGenerates ==
  /\ pc \in {"ordering", "generating"} => schemaValidation[1].valid
  /\ \A k \in 1..Len(results) :
       results[k].error \notin {"Circular dependencies detected in schema",
                                "No IDs available for entity"}

\* A step of generateCustomEntities on an entity whose only field is the
\* foreign key `parentId`: one record is produced, or the call fails.
ForeignKeyStep ==
  /\ pc = "generating" /\ entityIndex <= Len(sortedEntities)
  /\ entityDef.type = "custom"
  /\ entityDef.fields = <<"parentId">>
  /\ HasRelationship(entityDef.relationships, "parentId")
  /\ (i' = i + 1 \/ pc' = "failed")

\* The entity that `parentId` of the current entity references.
ForeignKeyTarget == RelationshipOf(entityDef.relationships, "parentId").references

ForeignKeyNullable == Truthy(RelationshipOf(entityDef.relationships, "parentId").nullable)

\* C27: selecting a foreign key from an empty pool fails, nullable or not,
\* and before the nullable coin is drawn (the stream does not move and no
\* record is produced); from a non-empty pool it yields a member of the pool,
\* or null for a nullable relationship only, and the pool of the target is
\* what it was before the selection.
C27_EmptyPoolFailsBeforeCoin ==
  [][ForeignKeyStep =>
       LET ids == getEntityIds(generator[1].idPool, ForeignKeyTarget)
           own == generateEntityId(generator[1].idPool, entityName)
           pool == getEntityIds(own.idPool, ForeignKeyTarget)
       IN /\ getEntityIds(generator'[1].idPool, ForeignKeyTarget) = pool
          /\ ForeignKeyTarget # entityName => pool = ids
          /\ Len(pool) = 0 =>
               /\ pc' = "failed" /\ entities' = entities
               /\ generator'[1].faker = generator[1].faker
               /\ results'[Len(results')].error = "No IDs available for entity"
          /\ Len(pool) > 0 =>
               /\ pc' = pc /\ Len(entities') = Len(entities) + 1
               /\ LET fk == entities'[Len(entities')].parentId IN
                    \/ fk = Null /\ ForeignKeyNullable
                    \/ \E k \in 1..Len(pool) : fk = pool[k]]_vars

\* C27 witness: a call failed on the empty pool of the entity that a
\* nullable relationship references.
C27_Witness ==
  /\ pc = "failed" /\ Len(results) > 0
  /\ results[Len(results)].error = "No IDs available for entity"
  /\ entityIndex <= Len(sortedEntities)
  /\ entityDef.fields = <<"parentId">>
  /\ HasRelationship(entityDef.relationships, "parentId")
  /\ ForeignKeyNullable
  /\ getEntityIds(generator[1].idPool, ForeignKeyTarget) = <<>>

\* C28: within one call every record stream (the DatasetGenerator's own
\* Faker, the person generator, the company generator) is seeded with the
\* value the result reports as metadata.seed, also when the seed was taken
\* from the clock.
C28_OneSeedForEveryStream ==
  /\ generator # <<>> =>
       /\ generator[1].faker.seed = generator[1].seed
       /\ generator[1].personGenerator.seed = generator[1].seed
       /\ generator[1].companyGenerator.seed = generator[1].seed
  /\ pc = "done" => results[Len(results)].metadata.seed = generator[1].seed

\* C29: the pools of two different entities of one schema hold no id in
\* common, also when the names differ only in letter case.
C29_PoolsDisjoint ==
  generator # <<>> =>
    \A e1, e2 \in Range(params.schema.keys) :
      e1 # e2 =>
        Range(getEntityIds(generator[1].idPool, e1))
          \cap Range(getEntityIds(generator[1].idPool, e2)) = {}

====
